---- MODULE Spec2Model ----
(***************************************************************************)
(* A model of the ftl-mcp gateways.                                        *)
(*                                                                         *)
(*   SpecMcp   the MCP gateway (src/src/ftl-mcp-gateway): one HTTP request *)
(*             at a time is taken through handle_mcp_request, with the     *)
(*             backend replies of tools/list and tools/call arriving as    *)
(*             separate steps in any order.                                *)
(*   SpecJwks  the JWKS cache (src/src/ftl-auth-gateway/src/jwks.rs):      *)
(*             concurrent fetch_jwks calls, cut at their await points.     *)
(*   SpecAuth  the authentication gateway (src/src/ftl-auth-gateway): one  *)
(*             HTTP request at a time through handle_request,              *)
(*             verify_request, fetch_jwks and forward_to_mcp_gateway,      *)
(*             while other requests store key sets in the cache.           *)
(*                                                                         *)
(* Strings whose characters matter (tool names, the tool_components        *)
(* variable) are sequences of one-character strings.                       *)
(***************************************************************************)
EXTENDS Integers, Sequences, FiniteSets, TLC

VARIABLES
    \* ---- MCP gateway ----
    toolComponents,   \* the tool_components variable: a string, or VarMissing
    validateVar,      \* the validate_arguments variable: a string, or VarMissing
    mreq,             \* the HTTP request being served
    mpc,              \* where its task is suspended
    results,          \* join_all's slots, one per metadata future
    arrival,          \* the order in which the metadata futures completed
    sent,             \* the backend requests issued for this HTTP request
    replies,          \* the outcome of each of them, once it has completed
    mresp,            \* the HTTP response returned for it
    \* ---- JWKS cache and authentication gateway ----
    cache,            \* JWKS_CACHE: jwks_uri -> (JwksResponse, Instant)
    now,              \* the clock read by Instant::now() and elapsed(), in seconds
    task,             \* each task's position in fetch_jwks and its locals
    calls,            \* the number of fetch_jwks calls made so far
    authConfig,       \* what GatewayConfig::from_spin_vars yields
    areq,             \* the HTTP request the authentication gateway is serving
    apc,              \* where its task is suspended
    actx,             \* the auth_context verify_request produced for it
    fwd,              \* the request forwarded to the MCP gateway for it
    aresp,            \* the HTTP response returned for it
    spinVars,         \* the auth_* Spin variables
    loadResult        \* the Result of GatewayConfig::from_spin_vars

mcpVars ==
    <<toolComponents, validateVar, mreq, mpc, results, arrival, sent, replies, mresp>>

jwksVars == <<cache, now, task, calls>>

authVars == <<authConfig, areq, apc, actx, fwd, aresp>>

configVars == <<spinVars, loadResult>>

authGatewayVars == <<jwksVars, authVars, configVars>>

vars == <<mcpVars, jwksVars, authVars, configVars>>

----------------------------------------------------------------------------
(* Option<T> *)
None == "None"

(* A Spin variable that is not set: variables::get returns Err. *)
VarMissing == "VarMissing"

----------------------------------------------------------------------------
(* Strings as character sequences *)

RECURSIVE SplitComma(_)
(* str::split(','): the pieces between commas; always at least one piece. *)
SplitComma(s) ==
    IF \A i \in DOMAIN s : s[i] # ","
    THEN <<s>>
    ELSE LET k == CHOOSE i \in DOMAIN s :
                      s[i] = "," /\ \A j \in 1..(i - 1) : s[j] # ","
         IN  <<SubSeq(s, 1, k - 1)>> \o SplitComma(SubSeq(s, k + 1, Len(s)))

RECURSIVE Trim(_)
(* str::trim: leading and trailing white space removed. *)
Trim(s) ==
    IF s = <<>> THEN s
    ELSE IF Head(s) = " " THEN Trim(Tail(s))
    ELSE IF s[Len(s)] = " " THEN Trim(SubSeq(s, 1, Len(s) - 1))
    ELSE s

(* tool_components.split(',').map(str::trim).collect() *)
ToolNamesOf(components) ==
    LET pieces == SplitComma(components)
    IN  [i \in DOMAIN pieces |-> Trim(pieces[i])]

(* McpGateway::snake_to_kebab: name.replace('_', "-") *)
SnakeToKebab(name) ==
    [i \in DOMAIN name |-> IF name[i] = "_" THEN "-" ELSE name[i]]

(* format!("http://{component_name}.spin.internal/") *)
ToolUrl(name) == <<"http://">> \o SnakeToKebab(name) \o <<".spin.internal/">>

----------------------------------------------------------------------------
(* JSON-RPC types (mcp_types.rs) *)

PARSE_ERROR == -32700
INVALID_REQUEST == -32600
METHOD_NOT_FOUND == -32601
INVALID_PARAMS == -32602
INTERNAL_ERROR == -32603

(* McpProtocolVersion: the one variant, serialized as "2025-06-18". *)
V1 == "2025-06-18"

(* A client-visible message: the format string used and the values put in it. *)
Msg(kind, detail) == [kind |-> kind, detail |-> detail]

(* JsonRpcResponse::success *)
JsonRpcSuccess(id, result) ==
    [jsonrpc |-> "2.0", id |-> id, result |-> [tag |-> "Result", result |-> result]]

(* JsonRpcResponse::error *)
JsonRpcError(id, code, message) ==
    [jsonrpc |-> "2.0", id |-> id,
     result |-> [tag |-> "Error",
                 error |-> [code |-> code, message |-> message, data |-> None]]]

(* Mutant of SerializeResponse: result and error as two optional members,   *)
(* of which result is always written.                                        *)
SerializeResponseResultAlways(r) ==
    [keys |-> {"jsonrpc", "result"}
              \cup (IF r.id = None THEN {} ELSE {"id"})
              \cup (IF r.result.tag = "Result" THEN {} ELSE {"error"}),
     jsonrpc |-> r.jsonrpc,
     id |-> r.id,
     payload |-> r.result]

(* serde_json::to_vec(&JsonRpcResponse): the keys written and their values.  *)
(* id is skipped when None; the untagged, flattened JsonRpcResult writes the *)
(* one key of its variant; data is skipped when None.                        *)
SerializeResponse(r) ==
    [keys |-> {"jsonrpc"}
              \cup (IF r.id = None THEN {} ELSE {"id"})
              \cup (IF r.result.tag = "Result" THEN {"result"} ELSE {"error"}),
     jsonrpc |-> r.jsonrpc,
     id |-> r.id,
     payload |-> r.result]

(* An HTTP response of the gateway. *)
HttpResponse(status, headers, body) ==
    [status |-> status, headers |-> headers, body |-> body]

EmptyBody == [kind |-> "empty"]
TextBody(t) == [kind |-> "text", text |-> t]
JsonBody(j) == [kind |-> "json", json |-> j]

NoResponse == [status |-> 0, headers |-> {}, body |-> EmptyBody]

----------------------------------------------------------------------------
(* The inputs of the MCP gateway *)

HttpMethods == {"POST", "OPTIONS", "GET"}

(* The id member of a request body as written by the client. *)
RawIds == {"absent", "null", "1", "abc"}

Methods == {"initialize", "initialized", "ping", "tools/list", "tools/call",
            "tools/destroy"}

(* Tool names a client may call and an operator may configure. *)
NameEcho == <<"e">>
NameAddTwo == <<"a", "_", "b">>
NameGhost == <<"z">>
CallNames == {NameEcho, NameAddTwo, NameGhost}

(* The arguments member: an object with members a and b, each absent, a      *)
(* number or a string.                                                       *)
ArgsEmpty == [a |-> "absent", b |-> "absent"]
ArgsGood == [a |-> "num", b |-> "num"]
ArgsBad == [a |-> "str", b |-> "num"]
ArgValues == {ArgsEmpty, ArgsGood, ArgsBad}

(* The params member: the members it has and their values. A params that is  *)
(* no JSON object has kind "scalar"; an absent or null params has kind       *)
(* "absent" (Option<Value> reads both as None).                              *)
Params(kind, has, version, name, arguments) ==
    [kind |-> kind, has |-> has, protocolVersion |-> version, name |-> name,
     arguments |-> arguments]

ParamsAbsent == Params("absent", {}, "", <<>>, ArgsEmpty)
ParamsScalar == Params("scalar", {}, "", <<>>, ArgsEmpty)

InitParams ==
    { Params("object", {"protocolVersion", "capabilities", "clientInfo"}, v, <<>>,
             ArgsEmpty) : v \in {V1, "2024-11-05"} }
    \cup { Params("object", {"protocolVersion"}, V1, <<>>, ArgsEmpty) }

CallParams ==
    { Params("object", {"name", "arguments"}, "", n, a) :
          n \in CallNames, a \in ArgValues }
    \cup { Params("object", {"name"}, "", n, ArgsEmpty) : n \in CallNames }
    \cup { Params("object", {"arguments"}, "", <<>>, ArgsGood) }

ParamsSet == {ParamsAbsent, ParamsScalar} \cup InitParams \cup CallParams

(* The request body: bytes that are no JSON, or a JSON object. *)
GarbageBody == [kind |-> "garbage", has |-> {}, id |-> "absent", method |-> "",
                params |-> ParamsAbsent]

JsonBodies ==
    [kind : {"json"}, has : {{"jsonrpc", "method"}}, id : RawIds, method : Methods,
     params : ParamsSet]
    \cup [kind : {"json"}, has : {{"jsonrpc"}}, id : {"1"}, method : {""},
          params : {ParamsAbsent}]

Bodies == {GarbageBody} \cup JsonBodies

HttpRequests == [method : HttpMethods, body : Bodies]

(* serde_json::from_slice::<JsonRpcRequest>: jsonrpc and method are required *)
(* strings; id and params are Option<Value>, None when absent or null.       *)
ParseJsonRpcRequest(body) ==
    IF body.kind = "json" /\ {"jsonrpc", "method"} \subseteq body.has
    THEN [ok |-> TRUE,
          id |-> IF body.id \in {"absent", "null"} THEN None ELSE body.id,
          method |-> body.method,
          params |-> body.params]
    ELSE [ok |-> FALSE, id |-> None, method |-> "", params |-> ParamsAbsent]

(* serde_json::from_value::<InitializeRequest>: protocolVersion must be a    *)
(* variant of McpProtocolVersion; capabilities and clientInfo are required.  *)
ParseInitializeRequest(p) ==
    /\ p.kind = "object"
    /\ {"protocolVersion", "capabilities", "clientInfo"} \subseteq p.has
    /\ p.protocolVersion = V1

(* serde_json::from_value::<CallToolRequest>: name is required. *)
ParseCallToolRequest(p) ==
    /\ p.kind = "object"
    /\ "name" \in p.has

----------------------------------------------------------------------------
(* The tool backends: what a GET or a POST to a tool component may answer *)

(* JSON Schemas a backend may publish as its inputSchema. *)
SchemaAny == "accept-any-object"
SchemaAB == "a-and-b-required-numbers"
SchemaBroken == "not-a-valid-schema"
Schemas == {SchemaAny, SchemaAB, SchemaBroken}

(* The inputSchema of the component serving a tool name. *)
InputSchemaOf(name) ==
    IF SnakeToKebab(name) = SnakeToKebab(NameAddTwo) THEN SchemaAB
    ELSE IF name = NameGhost THEN SchemaBroken
    ELSE SchemaAny

(* A name no configuration lists. *)
NameRogue == <<"x">>

(* A metadata document: the members it has and their values. *)
MetaDoc(kind, has, name, schema) ==
    [kind |-> kind, has |-> has, name |-> name, inputSchema |-> schema]

NoTool == MetaDoc("none", {}, <<>>, SchemaAny)

(* The bodies a backend may answer a metadata GET for tool_name with: bytes  *)
(* that are no JSON, a document without inputSchema, its document under its  *)
(* own name, and its document under another name.                            *)
MetaBodies(tool_name) ==
    { MetaDoc("garbage", {}, <<>>, SchemaAny),
      MetaDoc("json", {"name"}, tool_name, SchemaAny),
      MetaDoc("json", {"name", "inputSchema"}, tool_name, InputSchemaOf(tool_name)),
      MetaDoc("json", {"name", "inputSchema"}, NameRogue, InputSchemaOf(tool_name)) }

(* The outcomes of spin_sdk::http::send for a metadata GET. An empty tool    *)
(* name makes a URL without a host, which no component serves.               *)
GetOutcomes(tool_name) ==
    { [kind |-> "transport_error", status |-> 0,
       body |-> MetaDoc("garbage", {}, <<>>, SchemaAny)] }
    \cup (IF tool_name = <<>> THEN {}
          ELSE { [kind |-> "response", status |-> 500,
                  body |-> MetaDoc("json", {"name", "inputSchema"}, tool_name,
                                   InputSchemaOf(tool_name))] }
               \cup { [kind |-> "response", status |-> 200, body |-> b] :
                          b \in MetaBodies(tool_name) })

(* A Tool Response document: the members it has and their values. *)
ToolDoc(kind, has, content, isError) ==
    [kind |-> kind, has |-> has, content |-> content, isError |-> isError]

TextItem(text) == [type |-> "text", text |-> text, has |-> {"type", "text"}]

(* A content item of a type ToolContent does not have. *)
UnknownItem == [type |-> "video", text |-> Msg("backend text", <<"5">>), has |-> {"type"}]

ToolBodies ==
    { ToolDoc("garbage", {}, <<>>, FALSE),
      ToolDoc("json", {"isError"}, <<>>, FALSE),
      ToolDoc("json", {"content"}, <<UnknownItem>>, FALSE),
      ToolDoc("json", {"content"}, <<TextItem(Msg("backend text", <<"5">>))>>, FALSE),
      ToolDoc("json", {"content", "structuredContent"},
              <<TextItem(Msg("backend text", <<"5">>))>>, FALSE),
      ToolDoc("json", {"content", "isError"},
              <<TextItem(Msg("backend text", <<"oops">>))>>, TRUE) }

(* The outcomes of spin_sdk::http::send for the POST of a tools/call. *)
PostOutcomes ==
    { [kind |-> "transport_error", status |-> 0, body |-> ToolDoc("garbage", {}, <<>>, FALSE)] }
    \cup { [kind |-> "response", status |-> 500, body |-> ToolDoc("garbage", {}, <<>>, FALSE)],
           [kind |-> "response", status |-> 404,
            body |-> ToolDoc("json", {"content"},
                             <<TextItem(Msg("backend text", <<"5">>))>>, FALSE)] }
    \cup { [kind |-> "response", status |-> 200, body |-> b] : b \in ToolBodies }

(* A backend request: its verb, its URL and, for a POST, its body. *)
(* A backend request that has not completed yet. *)
NoReply == [kind |-> "pending", status |-> 0]

BackendGet(url) == [verb |-> "GET", url |-> url, body |-> ArgsEmpty]
BackendPost(url, arguments) == [verb |-> "POST", url |-> url, body |-> arguments]

----------------------------------------------------------------------------
(* McpGateway (gateway.rs) *)

(* Option<T> as a record. *)
Some(v) == [some |-> TRUE, value |-> v]
NoneOf(dummy) == [some |-> FALSE, value |-> dummy]

(* A Spin variable: set to a value, or not set. *)
VarSet(v) == [set |-> TRUE, value |-> v]
VarUnset(dummy) == [set |-> FALSE, value |-> dummy]

(* variables::get("validate_arguments").unwrap_or_else(|_| "true")           *)
(*     .parse::<bool>().unwrap_or(true)                                      *)
ValidateArgumentsFlag(var) ==
    LET text == IF var.set THEN var.value ELSE "true"
    IN  IF text = "true" THEN TRUE ELSE IF text = "false" THEN FALSE ELSE TRUE

ServerInfo == [name |-> "ftl-mcp-gateway", version |-> "0.0.3"]

(* fetch_tool_metadata, the request it sends. *)
FetchToolMetadataRequest(tool_name) == BackendGet(ToolUrl(tool_name))

(* fetch_tool_metadata, from the outcome of the send to its return value:    *)
(* Some(tool) for a 200 whose body deserializes as ToolMetadata (name and    *)
(* inputSchema are required), None otherwise.                                *)
FetchToolMetadataResult(tool_name, outcome) ==
    IF /\ outcome.kind = "response"
       /\ outcome.status = 200
       /\ outcome.body.kind = "json"
       /\ {"name", "inputSchema"} \subseteq outcome.body.has
    THEN Some(outcome.body)
    ELSE NoneOf(NoTool)

(* jsonschema::validator_for(schema).iter_errors(arguments): the instance    *)
(* paths of the errors. A missing required member is reported at the root.   *)
IterErrors(schema, arguments) ==
    IF schema = SchemaAB
    THEN (IF arguments.a = "absent" \/ arguments.b = "absent" THEN {""} ELSE {})
         \cup (IF arguments.a = "str" THEN {"/a"} ELSE {})
         \cup (IF arguments.b = "str" THEN {"/b"} ELSE {})
    ELSE {}

(* McpGateway::validate_arguments *)
ValidateArguments(tool_name, schema, arguments) ==
    IF schema # SchemaBroken
    THEN LET errors == IterErrors(schema, arguments)
         IN  IF errors = {}
             THEN [ok |-> TRUE, message |-> Msg("", <<>>)]
             ELSE [ok |-> FALSE,
                   message |-> Msg("Invalid arguments for tool '{}': {}",
                                   <<tool_name, errors>>)]
    ELSE [ok |-> FALSE,
          message |-> Msg("Failed to compile schema for tool '{}': {}",
                          <<tool_name, "jsonschema error">>)]

(* McpGateway::handle_initialize *)
HandleInitialize(request) ==
    IF request.params.kind = "absent"
    THEN JsonRpcError(request.id, INVALID_PARAMS,
                      Msg("Missing initialize parameters", <<>>))
    ELSE IF ~ParseInitializeRequest(request.params)
    THEN JsonRpcError(request.id, INVALID_PARAMS,
                      Msg("Invalid initialize parameters: {}", <<"serde error">>))
    ELSE IF request.params.protocolVersion # V1
    THEN JsonRpcError(request.id, INVALID_REQUEST,
                      Msg("Unsupported protocol version", <<>>))
    ELSE JsonRpcSuccess(request.id,
                        [kind |-> "initialize",
                         protocolVersion |-> V1,
                         capabilities |-> {"tools", "resources", "prompts"},
                         serverInfo |-> ServerInfo,
                         has |-> {"protocolVersion", "capabilities", "serverInfo",
                                  "instructions"}])

(* McpGateway::handle_ping *)
HandlePing(request) == JsonRpcSuccess(request.id, [kind |-> "empty object"])

(* What the code between two suspension points leaves behind: where the task *)
(* is suspended next, the Option<JsonRpcResponse> of handle_request once it  *)
(* has returned, the backend requests issued, and join_all's slots.          *)
Step(pc, response, requests, slots) ==
    [pc |-> pc, response |-> response, requests |-> requests, slots |-> slots]

NoJsonRpc == NoneOf(JsonRpcSuccess(None, [kind |-> "empty object"]))

Returned(response) == Step("done", response, <<>>, <<>>)

(* One slot of join_all: the future's output once it has completed. *)
Pending == [done |-> FALSE, output |-> NoneOf(NoTool)]
Completed(output) == [done |-> TRUE, output |-> output]

RECURSIVE Flatten(_)
(* results.into_iter().flatten().collect(): the Some values, in slot order. *)
Flatten(slots) ==
    IF slots = <<>> THEN <<>>
    ELSE (IF Head(slots).output.some THEN <<Head(slots).output.value>> ELSE <<>>)
         \o Flatten(Tail(slots))

(* Mutant of CollectTools: the outputs in the order of completion. *)
CollectToolsAsCompleted(slots, order) ==
    Flatten([k \in DOMAIN order |-> slots[order[k]]])

(* The tools of a tools/list response, from join_all's slots and the order   *)
(* in which the futures completed: join_all returns the outputs in the order *)
(* of the futures it was given.                                              *)
CollectTools(slots, order) == Flatten(slots)

(* handle_list_tools up to the await of join_all: every future is polled,    *)
(* so every GET is sent, in the order of tool_names.                         *)
HandleListToolsStart(request, components) ==
    IF ~components.set
    THEN Returned(Some(JsonRpcError(request.id, INTERNAL_ERROR,
             Msg("Failed to get tool components configuration: {}",
                 <<"variable error">>))))
    ELSE LET tool_names == ToolNamesOf(components.value)
         IN  Step("list_wait", NoJsonRpc,
                  [i \in DOMAIN tool_names |-> FetchToolMetadataRequest(tool_names[i])],
                  [i \in DOMAIN tool_names |-> Pending])

(* Mutant of HandleListToolsFinish: one failed fetch fails the request. *)
HandleListToolsFinishStrict(request, slots, order) ==
    IF \A i \in DOMAIN slots : slots[i].output.some
    THEN JsonRpcSuccess(request.id,
                        [kind |-> "tools", tools |-> CollectTools(slots, order)])
    ELSE JsonRpcError(request.id, INTERNAL_ERROR,
                      Msg("Failed to fetch tool metadata", <<>>))

(* handle_list_tools after join_all has returned. *)
HandleListToolsFinish(request, slots, order) ==
    JsonRpcSuccess(request.id, [kind |-> "tools", tools |-> CollectTools(slots, order)])

(* params.arguments.unwrap_or_else(|| json!({})) *)
ToolArguments(params) ==
    IF "arguments" \in params.has THEN params.arguments ELSE ArgsEmpty

(* handle_call_tool from the building of the POST to its await. *)
CallToolPost(params) ==
    Step("post_wait", NoJsonRpc,
         <<BackendPost(ToolUrl(params.name), ToolArguments(params))>>, <<>>)

(* A handle_call_tool that fetches the metadata whatever the setting. *)
HandleCallToolStartAlwaysFetch(request, validate_arguments) ==
    IF request.params.kind = "absent"
    THEN Returned(Some(JsonRpcError(request.id, INVALID_PARAMS,
                                    Msg("Missing call tool parameters", <<>>))))
    ELSE IF ~ParseCallToolRequest(request.params)
    THEN Returned(Some(JsonRpcError(request.id, INVALID_PARAMS,
             Msg("Invalid call tool parameters: {}", <<"serde error">>))))
    ELSE Step("meta_wait", NoJsonRpc,
              <<FetchToolMetadataRequest(request.params.name)>>, <<>>)

(* handle_call_tool up to its first await: the metadata GET when validation  *)
(* is enabled, the POST otherwise.                                           *)
HandleCallToolStart(request, validate_arguments) ==
    IF request.params.kind = "absent"
    THEN Returned(Some(JsonRpcError(request.id, INVALID_PARAMS,
                                    Msg("Missing call tool parameters", <<>>))))
    ELSE IF ~ParseCallToolRequest(request.params)
    THEN Returned(Some(JsonRpcError(request.id, INVALID_PARAMS,
             Msg("Invalid call tool parameters: {}", <<"serde error">>))))
    ELSE IF validate_arguments
    THEN Step("meta_wait", NoJsonRpc,
              <<FetchToolMetadataRequest(request.params.name)>>, <<>>)
    ELSE CallToolPost(request.params)

(* A handle_call_tool that refuses the call when the metadata is missing. *)
HandleCallToolValidatedStrict(request, metadata) ==
    IF metadata.some
    THEN LET v == ValidateArguments(request.params.name, metadata.value.inputSchema,
                                    ToolArguments(request.params))
         IN  IF ~v.ok
             THEN Returned(Some(JsonRpcError(request.id, INVALID_PARAMS, v.message)))
             ELSE CallToolPost(request.params)
    ELSE Returned(Some(JsonRpcError(request.id, INTERNAL_ERROR,
             Msg("Tool metadata not available", <<>>))))

(* Mutant of HandleCallToolValidated: a validation error is not returned. *)
HandleCallToolValidatedNoReturn(request, metadata) == CallToolPost(request.params)

(* handle_call_tool from the return of fetch_tool_metadata to the next       *)
(* await or return.                                                          *)
HandleCallToolValidated(request, metadata) ==
    IF metadata.some
    THEN LET v == ValidateArguments(request.params.name, metadata.value.inputSchema,
                                    ToolArguments(request.params))
         IN  IF ~v.ok
             THEN Returned(Some(JsonRpcError(request.id, INVALID_PARAMS, v.message)))
             ELSE CallToolPost(request.params)
    ELSE CallToolPost(request.params)

(* A deserializer that accepts any JSON object as a Tool Response. *)
ParseToolResponseLenient(body) == body.kind = "json"

(* serde_json::from_slice::<ToolResponse>: content is required, and each of  *)
(* its items must be a ToolContent (here: a text item with its text).        *)
ParseToolResponse(body) ==
    /\ body.kind = "json"
    /\ "content" \in body.has
    /\ \A k \in DOMAIN body.content :
           body.content[k].type = "text" /\ "text" \in body.content[k].has

(* serde_json::to_value(tool_response): the members of ToolResponse, the     *)
(* optional ones skipped when None.                                          *)
ToolResponseValue(has, content, isError) ==
    [kind |-> "tool response", has |-> has, content |-> content, isError |-> isError]

(* A handle_call_tool that reports a backend status other than 200 as a      *)
(* JSON-RPC error.                                                           *)
HandleCallToolFinishStatusError(request, outcome) ==
    IF outcome.kind = "response" /\ outcome.status = 200 /\ ParseToolResponse(outcome.body)
    THEN JsonRpcSuccess(request.id,
             ToolResponseValue(outcome.body.has, outcome.body.content,
                               outcome.body.isError))
    ELSE JsonRpcError(request.id, INTERNAL_ERROR,
             Msg("Failed to call tool '{}': {}",
                 <<request.params.name, "transport error">>))

(* A handle_call_tool that reports a transport failure as a tool error.      *)
HandleCallToolFinishTransportAsToolError(request, outcome) ==
    IF outcome.kind = "response" /\ outcome.status = 200 /\ ParseToolResponse(outcome.body)
    THEN JsonRpcSuccess(request.id,
             ToolResponseValue(outcome.body.has, outcome.body.content,
                               outcome.body.isError))
    ELSE IF outcome.kind = "response" /\ outcome.status = 200
    THEN JsonRpcError(request.id, INTERNAL_ERROR,
             Msg("Tool returned invalid response format: {}", <<"serde error">>))
    ELSE JsonRpcSuccess(request.id,
             ToolResponseValue({"content", "isError"},
                 <<TextItem(Msg("Tool execution failed (status {}): {}",
                                <<outcome.status, outcome.body>>))>>,
                 TRUE))

(* handle_call_tool from the outcome of the POST to its return. *)
HandleCallToolFinish(request, outcome) ==
    IF outcome.kind = "response"
    THEN IF outcome.status = 200
         THEN IF ParseToolResponse(outcome.body)
              THEN JsonRpcSuccess(request.id,
                       ToolResponseValue(outcome.body.has, outcome.body.content,
                                         outcome.body.isError))
              ELSE JsonRpcError(request.id, INTERNAL_ERROR,
                       Msg("Tool returned invalid response format: {}",
                           <<"serde error">>))
         ELSE JsonRpcSuccess(request.id,
                  ToolResponseValue({"content", "isError"},
                      <<TextItem(Msg("Tool execution failed (status {}): {}",
                                     <<outcome.status, outcome.body>>))>>,
                      TRUE))
    ELSE JsonRpcError(request.id, INTERNAL_ERROR,
             Msg("Failed to call tool '{}': {}",
                 <<request.params.name, "transport error">>))

(* A handle_request that lists the tools for any method it does not know.   *)
HandleRequestStartUnknownLists(request, components, validate_arguments) ==
    CASE request.method = "initialize" -> Returned(Some(HandleInitialize(request)))
      [] request.method = "initialized" -> Returned(NoJsonRpc)
      [] request.method = "tools/call" ->
             HandleCallToolStart(request, validate_arguments)
      [] request.method = "ping" -> Returned(Some(HandlePing(request)))
      [] OTHER -> HandleListToolsStart(request, components)

(* McpGateway::handle_request up to its first await or its return. *)
HandleRequestStart(request, components, validate_arguments) ==
    CASE request.method = "initialize" -> Returned(Some(HandleInitialize(request)))
      [] request.method = "initialized" -> Returned(NoJsonRpc)
      [] request.method = "tools/list" -> HandleListToolsStart(request, components)
      [] request.method = "tools/call" ->
             HandleCallToolStart(request, validate_arguments)
      [] request.method = "ping" -> Returned(Some(HandlePing(request)))
      [] OTHER -> Returned(Some(JsonRpcError(request.id, METHOD_NOT_FOUND,
                      Msg("Method '{}' not found", <<request.method>>))))

JsonHeaders == {<<"Content-Type", "application/json">>,
                <<"Access-Control-Allow-Origin", "*">>}

(* A closing step that answers a JSON-RPC error with HTTP 500. *)
McpHttpResponseErrorStatus(response) ==
    IF response.some
    THEN HttpResponse(IF response.value.result.tag = "Error" THEN 500 ELSE 200,
                      JsonHeaders, JsonBody(SerializeResponse(response.value)))
    ELSE HttpResponse(200, JsonHeaders, EmptyBody)

(* handle_mcp_request, the closing map_or_else: an empty 200 for None, the   *)
(* serialized response for Some.                                             *)
McpHttpResponse(response) ==
    IF response.some
    THEN HttpResponse(200, JsonHeaders, JsonBody(SerializeResponse(response.value)))
    ELSE HttpResponse(200, JsonHeaders, EmptyBody)

(* handle_mcp_request up to the first await of handle_request, or to its     *)
(* return: the HTTP response when it has returned.                           *)
HandleMcpRequestStart(req, components, validate_var) ==
    IF req.method = "OPTIONS"
    THEN [step |-> Returned(NoJsonRpc),
          http |-> HttpResponse(200,
                       {<<"Access-Control-Allow-Origin", "*">>,
                        <<"Access-Control-Allow-Methods", "POST, OPTIONS">>,
                        <<"Access-Control-Allow-Headers", "Content-Type">>},
                       EmptyBody)]
    ELSE IF req.method # "POST"
    THEN [step |-> Returned(NoJsonRpc),
          http |-> HttpResponse(405, {<<"Allow", "POST, OPTIONS">>},
                                TextBody("Method not allowed"))]
    ELSE LET request == ParseJsonRpcRequest(req.body)
         IN  IF ~request.ok
             THEN LET error_response ==
                          JsonRpcError(None, PARSE_ERROR,
                              Msg("Invalid JSON-RPC request: {}", <<"serde error">>))
                  IN  [step |-> Returned(Some(error_response)),
                       http |-> McpHttpResponse(Some(error_response))]
             ELSE LET step == HandleRequestStart(request, components,
                                  ValidateArgumentsFlag(validate_var))
                  IN  [step |-> step,
                       http |-> IF step.pc = "done"
                                THEN McpHttpResponse(step.response)
                                ELSE NoResponse]

----------------------------------------------------------------------------
(* The MCP gateway as a state machine *)

(* The values of the tool_components variable. *)
ComponentsSettings ==
    { VarUnset(<<>>),
      VarSet(<<>>),
      VarSet(<<"e">>),
      VarSet(<<"e", ",", "a", "_", "b">>),
      VarSet(<<"a", "_", "b", ",", " ", "e">>),
      VarSet(<<"e", ",", "a", "_", "b", ",", "z">>) }

(* The values of the validate_arguments variable. *)
ValidateSettings == {VarUnset(""), VarSet("true"), VarSet("false"), VarSet("yes")}

(* The JSON-RPC request of the HTTP request being served. *)
Request == ParseJsonRpcRequest(mreq.body)

(* The tool names of a tools/list in progress. *)
ToolNames == ToolNamesOf(toolComponents.value)

(* The MCP gateway after start-up, with its variables set. *)
McpStart ==
    /\ toolComponents \in ComponentsSettings
    /\ validateVar \in ValidateSettings
    /\ mreq = [method |-> "GET", body |-> GarbageBody]
    /\ mpc = "idle"
    /\ results = <<>>
    /\ arrival = <<>>
    /\ sent = <<>>
    /\ replies = <<>>
    /\ mresp = NoResponse

(* An HTTP request arrives and handle_mcp_request runs to its first await    *)
(* or to its return.                                                         *)
McpReceive(req) ==
    /\ mpc = "idle"
    /\ LET out == HandleMcpRequestStart(req, toolComponents, validateVar)
       IN  /\ mreq' = req
           /\ mpc' = out.step.pc
           /\ results' = out.step.slots
           /\ arrival' = <<>>
           /\ sent' = out.step.requests
           /\ replies' = [k \in DOMAIN out.step.requests |-> NoReply]
           /\ mresp' = out.http
    /\ UNCHANGED <<toolComponents, validateVar, authGatewayVars>>

(* The metadata GET of slot i of a tools/list completes; when it is the last *)
(* one, join_all returns and the response is built.                          *)
ListFetchComplete(i, outcome) ==
    /\ mpc = "list_wait"
    /\ i \in DOMAIN results
    /\ ~results[i].done
    /\ LET slots == [results EXCEPT
                        ![i] = Completed(FetchToolMetadataResult(ToolNames[i], outcome))]
           order == Append(arrival, i)
       IN  /\ results' = slots
           /\ arrival' = order
           /\ replies' = [replies EXCEPT ![i] = outcome]
           /\ IF \A j \in DOMAIN slots : slots[j].done
              THEN /\ mpc' = "done"
                   /\ mresp' = McpHttpResponse(
                                   Some(HandleListToolsFinish(Request, slots, order)))
              ELSE UNCHANGED <<mpc, mresp>>
    /\ UNCHANGED <<toolComponents, validateVar, mreq, sent, authGatewayVars>>

(* The metadata GET of a tools/call completes: validation, then the POST. *)
CallMetaComplete(outcome) ==
    /\ mpc = "meta_wait"
    /\ LET step == HandleCallToolValidated(Request,
                       FetchToolMetadataResult(Request.params.name, outcome))
       IN  /\ mpc' = step.pc
           /\ sent' = sent \o step.requests
           /\ replies' = <<outcome>> \o [k \in DOMAIN step.requests |-> NoReply]
           /\ mresp' = IF step.pc = "done" THEN McpHttpResponse(step.response)
                       ELSE mresp
    /\ UNCHANGED <<toolComponents, validateVar, mreq, results, arrival, authGatewayVars>>

(* The POST of a tools/call completes and the response is built. *)
CallPostComplete(outcome) ==
    /\ mpc = "post_wait"
    /\ mpc' = "done"
    /\ replies' = [replies EXCEPT ![Len(sent)] = outcome]
    /\ mresp' = McpHttpResponse(Some(HandleCallToolFinish(Request, outcome)))
    /\ UNCHANGED <<toolComponents, validateVar, mreq, results, arrival, sent, authGatewayVars>>

(* An end of request that keeps the backend exchange of the request. *)
McpCloseKeepsExchange ==
    /\ mpc = "done"
    /\ mreq' = [method |-> "GET", body |-> GarbageBody]
    /\ mpc' = "idle"
    /\ results' = <<>>
    /\ arrival' = <<>>
    /\ mresp' = NoResponse
    /\ UNCHANGED <<toolComponents, validateVar, sent, replies, authGatewayVars>>

(* The response has been written and the task of the request ends; the     *)
(* gateway keeps nothing of it.                                             *)
McpClose ==
    /\ mpc = "done"
    /\ mreq' = [method |-> "GET", body |-> GarbageBody]
    /\ mpc' = "idle"
    /\ results' = <<>>
    /\ arrival' = <<>>
    /\ sent' = <<>>
    /\ replies' = <<>>
    /\ mresp' = NoResponse
    /\ UNCHANGED <<toolComponents, validateVar, authGatewayVars>>

NextMcp ==
    \/ \E req \in HttpRequests : McpReceive(req)
    \/ McpClose
    \/ \E i \in DOMAIN results : \E outcome \in GetOutcomes(ToolNames[i]) :
           ListFetchComplete(i, outcome)
    \/ \E outcome \in GetOutcomes(Request.params.name) : CallMetaComplete(outcome)
    \/ \E outcome \in PostOutcomes : CallPostComplete(outcome)

----------------------------------------------------------------------------
(* Properties of the MCP gateway *)

(* The request being served is a POST whose body parsed as a JSON-RPC request. *)
ServingJsonRpc == mpc # "idle" /\ mreq.method = "POST" /\ Request.ok

(* The request has been answered. *)
Answered == mpc = "done"

(* The JSON-RPC response in the body of the HTTP response. *)
Wire == mresp.body.json

(* Slot i's metadata GET has completed and fetched a Tool Metadata document: *)
(* a 200 whose body is JSON with the required members name and inputSchema.  *)
FetchSucceeded(i) ==
    /\ replies[i].kind = "response"
    /\ replies[i].status = 200
    /\ replies[i].body.kind = "json"
    /\ {"name", "inputSchema"} \subseteq replies[i].body.has

ServingList == ServingJsonRpc /\ Request.method = "tools/list" /\ toolComponents.set

ServingCall ==
    /\ ServingJsonRpc
    /\ Request.method = "tools/call"
    /\ Request.params.kind # "absent"
    /\ ParseCallToolRequest(Request.params)

PostIssued == \E k \in DOMAIN sent : sent[k].verb = "POST"

(* C3: a parsed JSON-RPC request that carries an id is answered, whatever    *)
(* its method, with one JSON-RPC response whose id is the request's id.      *)
C3_ResponseForEveryId ==
    (ServingJsonRpc /\ Answered /\ Request.id # None)
        => /\ mresp.body.kind = "json"
           /\ "id" \in Wire.keys
           /\ Wire.id = Request.id

(* C4: a parsed JSON-RPC request without an id is answered, whatever its     *)
(* method, with HTTP 200 and an empty body.                                  *)
C4_NotificationNoBody ==
    (ServingJsonRpc /\ Answered /\ mreq.body.id = "absent")
        => /\ mresp.status = 200
           /\ mresp.body.kind = "empty"

(* C5: every JSON-RPC response written has jsonrpc "2.0" and exactly one of  *)
(* the members result and error.                                             *)
C5_ResultXorError ==
    mresp.body.kind = "json"
        => /\ "jsonrpc" \in Wire.keys
           /\ Wire.jsonrpc = "2.0"
           /\ Cardinality(Wire.keys \cap {"result", "error"}) = 1
           /\ ("result" \in Wire.keys) = (Wire.payload.tag = "Result")

(* C5 witness: a parse error, a protocol error and a tool error have each    *)
(* been written; here, the tool error of a backend that answered 500.        *)
C5_Witness ==
    /\ ServingCall /\ Answered
    /\ mresp.body.kind = "json"
    /\ Wire.keys = {"jsonrpc", "id", "result"}
    /\ Wire.payload.result.isError
    /\ replies[Len(replies)].status = 500

(* The arguments of the call fail the inputSchema the tool's component       *)
(* publishes.                                                                *)
ArgumentsFailToolSchema ==
    /\ InputSchemaOf(Request.params.name) # SchemaBroken
    /\ IterErrors(InputSchemaOf(Request.params.name), ToolArguments(Request.params)) # {}

(* C6 as claimed: with validation enabled, a call whose arguments fail the   *)
(* tool's inputSchema gets -32602 and no POST is issued for it.              *)
C6_NoPostForInvalidArguments ==
    (ServingCall /\ ValidateArgumentsFlag(validateVar) /\ ArgumentsFailToolSchema)
        => /\ ~PostIssued
           /\ Answered => /\ "error" \in Wire.keys
                          /\ Wire.payload.error.code = -32602

(* The metadata GET of the call has completed and fetched the tool's         *)
(* metadata, whose inputSchema the arguments fail.                           *)
ArgumentsFailFetchedSchema ==
    /\ sent # <<>> /\ sent[1].verb = "GET"
    /\ replies[1].kind # "pending"
    /\ FetchSucceeded(1)
    /\ replies[1].body.inputSchema # SchemaBroken
    /\ IterErrors(replies[1].body.inputSchema, ToolArguments(Request.params)) # {}

(* C6 amended: with validation enabled, a call whose metadata was fetched    *)
(* and whose arguments fail the fetched inputSchema gets -32602 and no POST  *)
(* is issued for it.                                                         *)
C6_NoPostWhenFetchedSchemaFails ==
    (ServingCall /\ ValidateArgumentsFlag(validateVar) /\ ArgumentsFailFetchedSchema)
        => /\ ~PostIssued
           /\ Answered
           /\ "error" \in Wire.keys
           /\ Wire.payload.error.code = -32602

(* C6 witness: validation rejected {a: "two", b: 3} against the fetched      *)
(* schema; the only backend request is the metadata GET.                     *)
C6_Witness ==
    /\ ServingCall /\ Answered
    /\ ValidateArgumentsFlag(validateVar)
    /\ ArgumentsFailFetchedSchema
    /\ ToolArguments(Request.params) = ArgsBad
    /\ Len(sent) = 1
    /\ Wire.payload.error.code = -32602

(* The slots of a tools/list whose metadata fetch succeeded. *)
SucceededSlots == {i \in DOMAIN replies : FetchSucceeded(i)}

(* The tools array of the tools/list response. *)
ListedTools == Wire.payload.result.tools

(* C7: the tools array is the successfully fetched metadata in the order of  *)
(* tool_components, whatever the order of completion and whatever fails.     *)
C7_ListInConfiguredOrder ==
    (ServingList /\ Answered)
        => /\ "result" \in Wire.keys
           /\ Len(ListedTools) = Cardinality(SucceededSlots)
           /\ \E f \in [DOMAIN ListedTools -> SucceededSlots] :
                  /\ \A k, l \in DOMAIN ListedTools : k < l => f[k] < f[l]
                  /\ \A k \in DOMAIN ListedTools : ListedTools[k] = replies[f[k]].body

(* C7 witness: three backends, the last answered first, the second failed,   *)
(* and the two tools listed are the first's and the third's, in that order.  *)
C7_Witness ==
    /\ ServingList /\ Answered
    /\ Len(replies) = 3
    /\ arrival = <<3, 1, 2>>
    /\ SucceededSlots = {1, 3}
    /\ Len(ListedTools) = 2
    /\ ListedTools[1].name # ListedTools[2].name

(* The configured tool set. *)
ConfiguredNames == {ToolNames[i] : i \in DOMAIN ToolNames}

(* C8: every tool listed by tools/list has a name of the configured tool set. *)
C8_ListedNamesConfigured ==
    (ServingList /\ Answered /\ "result" \in Wire.keys)
        => \A k \in DOMAIN ListedTools : ListedTools[k].name \in ConfiguredNames

(* C9: tools/list answers with a success result whatever fetches fail, and   *)
(* every successfully fetched document is listed.                            *)
C9_ListSurvivesFailures ==
    (ServingList /\ Answered)
        => /\ mresp.body.kind = "json"
           /\ "result" \in Wire.keys
           /\ "error" \notin Wire.keys
           /\ \A i \in SucceededSlots :
                  \E k \in DOMAIN ListedTools : ListedTools[k] = replies[i].body
           /\ (SucceededSlots = {}) => ListedTools = <<>>

(* C9 witness: of three backends one failed in transport, one answered 500   *)
(* and one answered its metadata, which is listed alone.                     *)
C9_Witness ==
    /\ ServingList /\ Answered
    /\ Len(replies) = 3
    /\ replies[1].kind = "transport_error"
    /\ replies[2].status = 500
    /\ SucceededSlots = {3}
    /\ Len(ListedTools) = 1
    /\ "result" \in Wire.keys

----------------------------------------------------------------------------
(* The JWKS cache (jwks.rs) *)

(* Cache duration (5 minutes), in seconds. *)
CACHE_DURATION == 300

(* Maximum number of JWKS URIs to cache. *)
MAX_CACHE_SIZE == 100

(* The longest jwks_uri fetch_jwks accepts, in bytes. *)
MAX_URI_LEN == 2048

(* The tasks that may be inside fetch_jwks at the same time. *)
MaxTasks == 2
Tasks == 1..MaxTasks

(* The fetch_jwks calls of one run. *)
MaxCalls == 2

(* The clock advances in steps of TickSeconds, MaxTicks times. *)
TickSeconds == 150
MaxTicks == 2

(* The cache of a process that has fetched the key sets of Prefilled URIs,   *)
(* one per second, the last one just now.                                    *)
Prefilled == 99

(* JWKS URIs are numbered: 1..Prefilled are those of the warm cache, and     *)
(* after them come two more URIs, the second of the longest accepted length, *)
(* then one longer by a byte; the empty string has number 0.                 *)
UriEmpty == 0
UriOldest == 1
UriFreshA == Prefilled + 1
UriFreshB == Prefilled + 2
UriTooLong == Prefilled + 3
CallUris == {UriEmpty, UriOldest, UriFreshA, UriFreshB, UriTooLong}

(* jwks_uri.len() *)
UriLen(uri) ==
    IF uri = UriEmpty THEN 0
    ELSE IF uri = UriFreshB THEN 2048
    ELSE IF uri = UriTooLong THEN 2049
    ELSE 40

(* A JwksResponse: the key ids of its keys. *)
KeysOne == {"kid1"}
KeysTwo == {"kid2"}
NoKeys == {}

(* The outcomes of spin_sdk::http::send for the JWKS GET. *)
JwksOutcomes ==
    { [kind |-> "transport_error", status |-> 0, json |-> FALSE, keys |-> NoKeys],
      [kind |-> "response", status |-> 503, json |-> TRUE, keys |-> KeysOne],
      [kind |-> "response", status |-> 200, json |-> FALSE, keys |-> NoKeys],
      [kind |-> "response", status |-> 200, json |-> TRUE, keys |-> KeysOne],
      [kind |-> "response", status |-> 200, json |-> TRUE, keys |-> KeysTwo] }

(* Result<JwksResponse> *)
Ok(keys) == [ok |-> TRUE, keys |-> keys, error |-> ""]
Err(error) == [ok |-> FALSE, keys |-> NoKeys, error |-> error]

(* The locals of a task in fetch_jwks. *)
Frame(pc, uri, jwks, ret) == [pc |-> pc, uri |-> uri, jwks |-> jwks, ret |-> ret]
IdleFrame == Frame("idle", UriEmpty, NoKeys, Err(""))

(* A cache entry: (JwksResponse, Instant). *)
Entry(jwks, timestamp) == [jwks |-> jwks, timestamp |-> timestamp]

(* The empty HashMap, and the warm cache. *)
EmptyCache == [u \in {} |-> Entry(NoKeys, 0)]
WarmCache == [u \in 1..Prefilled |-> Entry(KeysOne, u)]

(* A read guard that lives to the end of fetch_jwks: it is still held while  *)
(* the GET is in flight.                                                     *)
ReadersAcrossFetch == {t \in Tasks : task[t].pc \in {"reading", "net"}}

(* The tasks holding the read lock, and the task holding the write lock. *)
Readers == {t \in Tasks : task[t].pc = "reading"}
Writers == {t \in Tasks : task[t].pc \in {"write_check", "write_insert"}}

(* A freshness test that still accepts an entry aged exactly CACHE_DURATION. *)
FreshInclusive(entry, instant) == instant - entry.timestamp <= CACHE_DURATION

(* timestamp.elapsed() < CACHE_DURATION *)
Fresh(entry, instant) == instant - entry.timestamp < CACHE_DURATION

(* A lookup that returns the entry of the URI whatever its age. *)
CacheLookupAnyAge(map, uri, instant) ==
    IF uri \in DOMAIN map THEN Some(map[uri].jwks) ELSE NoneOf(NoKeys)

(* cache.get(jwks_uri), with the check of its age: the keys to return. *)
CacheLookup(map, uri, instant) ==
    IF uri \in DOMAIN map /\ Fresh(map[uri], instant)
    THEN Some(map[uri].jwks)
    ELSE NoneOf(NoKeys)

(* An eviction that may take any entry. *)
AnyKeys(map) == DOMAIN map

(* The keys cache.iter().min_by_key(|(_, (_, timestamp))| timestamp) may     *)
(* return: HashMap iteration has no set order, so any entry with the least   *)
(* timestamp.                                                                *)
OldestKeys(map) ==
    {u \in DOMAIN map : \A w \in DOMAIN map : map[u].timestamp <= map[w].timestamp}

(* cache.remove(&oldest_key) *)
CacheRemove(map, uri) == [u \in DOMAIN map \ {uri} |-> map[u]]

(* An insertion that keeps the entry the map already holds for the URI. *)
CacheInsertIfAbsent(map, uri, jwks, instant) ==
    [u \in DOMAIN map \cup {uri} |-> IF u \in DOMAIN map THEN map[u] ELSE Entry(jwks, instant)]

(* cache.insert(jwks_uri, (jwks, Instant::now())) *)
CacheInsert(map, uri, jwks, instant) ==
    [u \in DOMAIN map \cup {uri} |-> IF u = uri THEN Entry(jwks, instant) ELSE map[u]]

(* A check for max size that comes one entry late. *)
AtMaxSizeLate(map) == Cardinality(DOMAIN map) > MAX_CACHE_SIZE

(* The cache is at max size: the oldest entry is removed before inserting. *)
AtMaxSize(map) == Cardinality(DOMAIN map) >= MAX_CACHE_SIZE

----------------------------------------------------------------------------
(* The authentication gateway: configuration (config.rs, providers.rs) *)

Issuer == "https://issuer.example"

(* An AuthProvider: its name(), issuer(), jwks_uri() and audience(). *)
Provider(name, jwks_uri, audience) ==
    [name |-> name, issuer |-> Issuer, jwks_uri |-> jwks_uri, audience |-> audience]

(* Result<GatewayConfig>: loaded is FALSE when from_spin_vars returns Err. *)
GatewayConfig(loaded, enabled, provider) ==
    [loaded |-> loaded, enabled |-> enabled, provider |-> provider]

AuthKit == Provider("authkit", UriFreshA, NoneOf(""))
Oidc == Provider("corp", UriFreshA, Some("api"))
OidcLongUri == Provider("corp", UriTooLong, NoneOf(""))

(* The settings of the auth_* variables. *)
ConfigSettings ==
    { GatewayConfig(FALSE, FALSE, NoneOf(AuthKit)),
      GatewayConfig(TRUE, FALSE, NoneOf(AuthKit)),
      GatewayConfig(TRUE, FALSE, Some(AuthKit)),
      GatewayConfig(TRUE, TRUE, NoneOf(AuthKit)),
      GatewayConfig(TRUE, TRUE, Some(AuthKit)),
      GatewayConfig(TRUE, TRUE, Some(Oidc)),
      GatewayConfig(TRUE, TRUE, Some(OidcLongUri)) }

(* build_registry: the providers of the registry, at most one. *)
BuildRegistry(config) ==
    IF config.provider.some THEN <<config.provider.value>> ELSE <<>>

----------------------------------------------------------------------------
(* The authentication gateway: loading the configuration (config.rs) *)

(* The text of provider URLs, as character sequences. *)
HttpPrefix == <<"h", "t", "t", "p", ":", "/", "/">>
HttpsPrefix == <<"h", "t", "t", "p", "s", ":", "/", "/">>
HostText == <<"i", "d", "p">>
NoText == <<>>

(* str::starts_with *)
StartsWith(s, prefix) ==
    Len(s) >= Len(prefix) /\ SubSeq(s, 1, Len(prefix)) = prefix

(* Result<T> in configuration loading: Ok(value), or Err. *)
LoadOk(value) == [ok |-> TRUE, value |-> value]
LoadErr(dummy) == [ok |-> FALSE, value |-> dummy]

(* GatewayConfig::ensure_https_url *)
EnsureHttpsUrl(url) ==
    IF StartsWith(url, HttpPrefix) THEN LoadErr(url)
    ELSE IF StartsWith(url, HttpsPrefix) THEN LoadOk(url)
    ELSE LoadOk(HttpsPrefix \o url)

(* ProviderConfig: AuthKit has issuer, jwks_uri and audience; Oidc has all   *)
(* the members, jwks_uri and the two endpoints always Some.                  *)
ProviderConfig(type, name, issuer, jwks_uri, audience, authorize, token, userinfo) ==
    [type |-> type, name |-> name, issuer |-> issuer, jwks_uri |-> jwks_uri,
     audience |-> audience, authorization_endpoint |-> authorize,
     token_endpoint |-> token, userinfo_endpoint |-> userinfo]

NoProviderConfig ==
    ProviderConfig("", "", NoText, NoneOf(NoText), NoneOf(""), NoneOf(NoText),
                   NoneOf(NoText), NoneOf(NoText))

(* variables::get(..).ok().filter(|s| !s.is_empty()) *)
GetNonEmpty(var, empty) ==
    IF var.set /\ var.value # empty THEN Some(var.value) ELSE NoneOf(empty)

(* variables::get(..).context(..)? followed by ensure_https_url(..)? *)
GetRequiredUrl(var) ==
    IF var.set THEN EnsureHttpsUrl(var.value) ELSE LoadErr(NoText)

(* variables::get(..).ok().filter(..).map(Self::ensure_https_url).transpose()? *)
GetOptionalUrl(var) ==
    LET given == GetNonEmpty(var, NoText)
    IN  IF ~given.some THEN LoadOk(NoneOf(NoText))
        ELSE IF EnsureHttpsUrl(given.value).ok
        THEN LoadOk(Some(EnsureHttpsUrl(given.value).value))
        ELSE LoadErr(NoneOf(NoText))

(* GatewayConfig::load_provider_config *)
LoadProviderConfig(provider_type, v) ==
    LET issuer == GetRequiredUrl(v.auth_provider_issuer)
        audience == GetNonEmpty(v.auth_provider_audience, "")
    IN  IF ~issuer.ok THEN LoadErr(NoProviderConfig)
        ELSE IF provider_type = "authkit"
        THEN LoadOk(ProviderConfig("authkit", "", issuer.value,
                                   GetNonEmpty(v.auth_provider_jwks_uri, NoText),
                                   audience, NoneOf(NoText), NoneOf(NoText),
                                   NoneOf(NoText)))
        ELSE IF provider_type = "oidc"
        THEN LET jwks_uri == GetRequiredUrl(v.auth_provider_jwks_uri)
                 authorization_endpoint ==
                     GetRequiredUrl(v.auth_provider_authorize_endpoint)
                 token_endpoint == GetRequiredUrl(v.auth_provider_token_endpoint)
                 userinfo_endpoint == GetOptionalUrl(v.auth_provider_userinfo_endpoint)
             IN  IF /\ v.auth_provider_name.set
                    /\ jwks_uri.ok
                    /\ authorization_endpoint.ok
                    /\ token_endpoint.ok
                    /\ userinfo_endpoint.ok
                 THEN LoadOk(ProviderConfig("oidc", v.auth_provider_name.value,
                                            issuer.value, Some(jwks_uri.value), audience,
                                            Some(authorization_endpoint.value),
                                            Some(token_endpoint.value),
                                            userinfo_endpoint.value))
                 ELSE LoadErr(NoProviderConfig)
        ELSE LoadErr(NoProviderConfig)

(* The Result of from_spin_vars, once it has been called. *)
LoadResult(called, ok, enabled, provider) ==
    [called |-> called, ok |-> ok, enabled |-> enabled, provider |-> provider]
NotLoaded == LoadResult(FALSE, FALSE, FALSE, NoneOf(NoProviderConfig))

(* A from_spin_vars that reads a provider that fails to load as no provider. *)
FromSpinVarsForgiving(v) ==
    LET enabled == v.auth_enabled.set /\ v.auth_enabled.value = "true"
        provider_type ==
            IF v.auth_provider_type.set THEN v.auth_provider_type.value ELSE ""
    IN  IF provider_type # "" /\ LoadProviderConfig(provider_type, v).ok
        THEN LoadResult(TRUE, TRUE, enabled,
                        Some(LoadProviderConfig(provider_type, v).value))
        ELSE LoadResult(TRUE, TRUE, enabled, NoneOf(NoProviderConfig))

(* GatewayConfig::from_spin_vars: auth_enabled is true only for the text     *)
(* "true"; an unset or empty auth_provider_type means no provider; an error  *)
(* of load_provider_config is returned to the caller.                        *)
FromSpinVars(v) ==
    LET enabled == v.auth_enabled.set /\ v.auth_enabled.value = "true"
        provider_type ==
            IF v.auth_provider_type.set THEN v.auth_provider_type.value ELSE ""
    IN  IF provider_type = ""
        THEN LoadResult(TRUE, TRUE, enabled, NoneOf(NoProviderConfig))
        ELSE IF LoadProviderConfig(provider_type, v).ok
        THEN LoadResult(TRUE, TRUE, enabled,
                        Some(LoadProviderConfig(provider_type, v).value))
        ELSE LoadResult(TRUE, FALSE, FALSE, NoneOf(NoProviderConfig))

(* The Spin variables of the authentication gateway. *)
SpinVars(enabled, type, issuer, jwks_uri, audience, name, authorize, token, userinfo) ==
    [auth_enabled |-> enabled, auth_provider_type |-> type,
     auth_provider_issuer |-> issuer, auth_provider_jwks_uri |-> jwks_uri,
     auth_provider_audience |-> audience, auth_provider_name |-> name,
     auth_provider_authorize_endpoint |-> authorize,
     auth_provider_token_endpoint |-> token,
     auth_provider_userinfo_endpoint |-> userinfo]

HttpsUrl == HttpsPrefix \o HostText
HttpUrl == HttpPrefix \o HostText

(* The settings of a URL variable: unset, empty, without scheme, https, http. *)
UrlSettings ==
    {VarUnset(NoText), VarSet(NoText), VarSet(HostText), VarSet(HttpsUrl),
     VarSet(HttpUrl)}

(* The settings of the variables under which loading is examined. *)
VariableSettings ==
    [auth_enabled : {VarUnset(""), VarSet("true"), VarSet("false")},
     auth_provider_type : {VarUnset(""), VarSet(""), VarSet("authkit"),
                           VarSet("oidc"), VarSet("saml")},
     auth_provider_issuer : UrlSettings,
     auth_provider_jwks_uri : UrlSettings,
     auth_provider_audience : {VarUnset(""), VarSet("api")},
     auth_provider_name : {VarUnset(""), VarSet("corp")},
     auth_provider_authorize_endpoint :
         {VarUnset(NoText), VarSet(HttpsUrl), VarSet(HttpUrl)},
     auth_provider_token_endpoint :
         {VarUnset(NoText), VarSet(HttpsUrl), VarSet(HttpUrl)},
     auth_provider_userinfo_endpoint : UrlSettings]

(* No variable is set. *)
NoVariables ==
    SpinVars(VarUnset(""), VarUnset(""), VarUnset(NoText), VarUnset(NoText),
             VarUnset(""), VarUnset(""), VarUnset(NoText), VarUnset(NoText),
             VarUnset(NoText))

(* The settings under which the authentication gateway serves requests: no   *)
(* provider, an AuthKit provider and an OIDC provider, with authentication   *)
(* disabled and enabled, and four settings that do not load (an http://      *)
(* issuer with authentication enabled and disabled, an unknown provider      *)
(* type, an OIDC provider without name).                                     *)
ServingSettings ==
    { SpinVars(enabled, VarUnset(""), VarUnset(NoText), VarUnset(NoText),
               VarUnset(""), VarUnset(""), VarUnset(NoText), VarUnset(NoText),
               VarUnset(NoText)) : enabled \in {VarUnset(""), VarSet("true")} }
    \cup
    { SpinVars(enabled, VarSet("authkit"), VarSet(issuer), VarUnset(NoText),
               VarUnset(""), VarUnset(""), VarUnset(NoText), VarUnset(NoText),
               VarUnset(NoText)) :
          enabled \in {VarSet("false"), VarSet("true")},
          issuer \in {HostText, HttpUrl} }
    \cup
    { SpinVars(VarSet("true"), VarSet("oidc"), VarSet(HttpsUrl), VarSet(HttpsUrl),
               audience, name, VarSet(HttpsUrl), VarSet(HttpsUrl), VarUnset(NoText)) :
          audience \in {VarUnset(""), VarSet("api")},
          name \in {VarUnset(""), VarSet("corp")} }
    \cup
    { SpinVars(VarSet("true"), VarSet("saml"), VarSet(HttpsUrl), VarUnset(NoText),
               VarUnset(""), VarUnset(""), VarUnset(NoText), VarUnset(NoText),
               VarUnset(NoText)) }

(* The configuration handle_request works with is the one from_spin_vars     *)
(* loaded: the same enabled flag, and a provider of the same name and        *)
(* audience.  The provider's JWKS URI is numbered as in the cache.           *)
ConfigLoadedAs(result, config) ==
    /\ config.loaded = result.ok
    /\ config.enabled = result.enabled
    /\ config.provider.some = result.provider.some
    /\ result.provider.some
           => /\ config.provider.value.name =
                     (IF result.provider.value.type = "authkit" THEN "authkit"
                      ELSE result.provider.value.name)
              /\ config.provider.value.audience = result.provider.value.audience

----------------------------------------------------------------------------
(* The authentication gateway: requests, tokens and JSON bodies *)

(* The exp of a token that expired long ago, and of one that expires far in  *)
(* the future.                                                               *)
ExpLongAgo == 0
ExpFarAhead == 100000

(* A bearer token.  format is "jwt" when decode_header can decode it; kid is *)
(* the header's kid, signer the key that signed it.                          *)
Token(format, kid, signer, iss, aud, exp) ==
    [format |-> format, kid |-> kid, signer |-> signer, iss |-> iss, aud |-> aud,
     exp |-> exp, sub |-> "alice", email |-> Some("alice@example.com")]

TokGood == Token("jwt", Some("kid1"), "kid1", Issuer, Some("api"), ExpFarAhead)
TokNoAud == Token("jwt", Some("kid1"), "kid1", Issuer, NoneOf(""), ExpFarAhead)
TokGarbage == Token("garbage", NoneOf(""), "", "", NoneOf(""), ExpLongAgo)
TokNoKid == Token("jwt", NoneOf(""), "kid1", Issuer, Some("api"), ExpFarAhead)
TokForged == Token("jwt", Some("kid1"), "mallory", Issuer, Some("api"), ExpFarAhead)
TokWrongIssuer == Token("jwt", Some("kid1"), "kid1", "https://other.example", Some("api"), ExpFarAhead)
TokExpired == Token("jwt", Some("kid1"), "kid1", Issuer, Some("api"), ExpLongAgo)
Tokens == {TokGood, TokNoAud, TokGarbage, TokNoKid, TokForged, TokWrongIssuer, TokExpired}

(* The Authorization header: absent, or a scheme prefix and a token. *)
Authorization(has, scheme, token) == [has |-> has, scheme |-> scheme, token |-> token]
NoAuthorization == Authorization(FALSE, "", TokGarbage)
Authorizations ==
    {NoAuthorization, Authorization(TRUE, "Basic ", TokGood),
     Authorization(TRUE, "bearer ", TokGood)}
        \cup {Authorization(TRUE, "Bearer ", token) : token \in Tokens}

(* UserContext, as Option. *)
UserContext(some, id, email, provider) ==
    [some |-> some, id |-> id, email |-> email, provider |-> provider]
NoContext == UserContext(FALSE, "", NoneOf(""), "")

(* A JSON value of a request or response body: null or an object with its    *)
(* method, params and result members, and the user context inserted into it  *)
(* (params._authContext of a request, result.serverInfo.authInfo of a        *)
(* response).                                                                *)
Json(type, method, params, result, inserted) ==
    [type |-> type, method |-> method, params |-> params, result |-> result,
     inserted |-> inserted]
JsonNull == Json("null", "", "absent", "absent", NoContext)

(* An HTTP body: empty, bytes that are not JSON, or JSON text. *)
Body(kind, json) == [kind |-> kind, json |-> json]
EmptyBytes == Body("empty", JsonNull)
GarbageBytes == Body("garbage", JsonNull)
TextBytes == Body("text", JsonNull)
JsonBytes(json) == Body("json", json)

AuthRequestBodies ==
    { EmptyBytes, GarbageBytes, JsonBytes(JsonNull),
      JsonBytes(Json("object", "initialize", "object", "absent", NoContext)),
      JsonBytes(Json("object", "initialize", "absent", "absent", NoContext)),
      JsonBytes(Json("object", "tools/list", "object", "absent", NoContext)) }

PathMcp == "/mcp"
PathProtectedResource == "/.well-known/oauth-protected-resource"
PathAuthorizationServer == "/.well-known/oauth-authorization-server"

AuthRequest(method, path, authorization, host, body) ==
    [method |-> method, path |-> path, authorization |-> authorization,
     host |-> host, body |-> body]

AuthRequests ==
    { AuthRequest(method, path, authorization, host, body) :
          method \in {"POST", "OPTIONS"},
          path \in {PathMcp, PathProtectedResource, PathAuthorizationServer},
          authorization \in Authorizations,
          host \in BOOLEAN,
          body \in AuthRequestBodies }

(* The WWW-Authenticate header. *)
WwwAuthenticate(has, description, resource_metadata) ==
    [has |-> has, description |-> description, resource_metadata |-> resource_metadata]
NoWwwAuthenticate == WwwAuthenticate(FALSE, "", FALSE)

(* An HTTP response of the authentication gateway. *)
AuthResponse(status, headers, www, text, body) ==
    [status |-> status, headers |-> headers, www |-> www, text |-> text, body |-> body]
NoAuthResponse == AuthResponse(0, {}, NoWwwAuthenticate, "", EmptyBytes)

(* The request sent to the MCP gateway. *)
ForwardReq(issued, method, body) == [sent |-> issued, method |-> method, body |-> body]
NoForward == ForwardReq(FALSE, "", EmptyBytes)

(* The outcomes of spin_sdk::http::send for the forwarded request. *)
Downstream(kind, status, body) == [kind |-> kind, status |-> status, body |-> body]
DownstreamOutcomes ==
    { Downstream("transport_error", 0, EmptyBytes),
      Downstream("response", 200, EmptyBytes),
      Downstream("response", 200, GarbageBytes),
      Downstream("response", 200, JsonBytes(JsonNull)),
      Downstream("response", 200,
                 JsonBytes(Json("object", "", "absent", "with_server_info", NoContext))),
      Downstream("response", 200,
                 JsonBytes(Json("object", "", "absent", "without_server_info", NoContext))),
      Downstream("response", 500,
                 JsonBytes(Json("object", "", "absent", "absent", NoContext))) }

----------------------------------------------------------------------------
(* The authentication gateway: handlers (auth.rs, handlers.rs, proxy.rs,     *)
(* lib.rs)                                                                   *)

(* extract_bearer_token: strip_prefix("Bearer "). *)
ExtractBearerToken(authorization) ==
    IF authorization.scheme = "Bearer "
    THEN Some(authorization.token)
    ELSE NoneOf(TokGarbage)

(* An error response with status 403 and no WWW-Authenticate header. *)
AuthErrorResponseForbidden(error, host) ==
    AuthResponse(403, {"Content-Type", "X-Trace-Id"}, NoWwwAuthenticate, error, TextBytes)

(* auth_error_response: the trace id is always given by the callers. *)
AuthErrorResponse(error, host) ==
    AuthResponse(401, {"WWW-Authenticate", "Content-Type", "X-Trace-Id"},
                 WwwAuthenticate(TRUE, error, host), error, TextBytes)

(* The 502 the callers of forward_to_mcp_gateway build from its Err. *)
GatewayErrorResponse(e) ==
    AuthResponse(502, {}, NoWwwAuthenticate, e, TextBytes)

(* How a piece of handler code ends: with the response ("done"), suspended   *)
(* in fetch_jwks ("jwks"), or suspended in the send to the MCP gateway        *)
(* ("forwarding").                                                           *)
Outcome(next, resp, ctx, forward) ==
    [next |-> next, resp |-> resp, ctx |-> ctx, forward |-> forward]
Done(resp) == Outcome("done", resp, NoContext, NoForward)

(* forward_to_mcp_gateway up to the send: request_data parsed from the body, *)
(* _authContext inserted into the params of an initialize request when there *)
(* is an auth context, and the body to forward.                              *)
ForwardBody(body, auth_context) ==
    IF body.kind = "empty" THEN EmptyBytes
    ELSE IF body.json.type = "null" THEN body
    ELSE IF /\ auth_context.some
            /\ body.json.method = "initialize"
            /\ body.json.params = "object"
    THEN JsonBytes(Json(body.json.type, body.json.method, body.json.params,
                        body.json.result, auth_context))
    ELSE JsonBytes(body.json)

(* A proxy that forwards the original bytes of a body it cannot parse. *)
ForwardStartUnparsed(req, auth_context) ==
    Outcome("forwarding", NoAuthResponse, auth_context,
            ForwardReq(TRUE, req.method,
                       IF req.body.kind = "garbage" THEN req.body
                       ELSE ForwardBody(req.body, auth_context)))

(* forward_to_mcp_gateway up to the send, and the 502 its callers build when *)
(* it returns Err for a body that is not JSON.                               *)
ForwardStart(req, auth_context) ==
    IF req.body.kind = "garbage"
    THEN Outcome("done",
                 GatewayErrorResponse("Gateway error: Invalid JSON in request body: {e}"),
                 auth_context, NoForward)
    ELSE Outcome("forwarding", NoAuthResponse, auth_context,
                 ForwardReq(TRUE, req.method, ForwardBody(req.body, auth_context)))

(* forward_to_mcp_gateway from the send on, and what its callers return.     *)
ForwardFinish(auth_context, outcome) ==
    IF outcome.kind # "response"
    THEN GatewayErrorResponse("Gateway error: {e}")
    ELSE IF outcome.body.kind = "garbage"
    THEN GatewayErrorResponse("Gateway error: Invalid JSON response from MCP gateway: {e}")
    ELSE IF outcome.body.kind = "empty" \/ outcome.body.json.type = "null"
    THEN AuthResponse(outcome.status, {}, NoWwwAuthenticate, "", outcome.body)
    ELSE LET data == outcome.body.json
             response_data ==
                 IF auth_context.some /\ data.result = "with_server_info"
                 THEN Json(data.type, data.method, data.params, data.result, auth_context)
                 ELSE data
         IN  AuthResponse(outcome.status, {"Content-Type", "X-Trace-Id"},
                          NoWwwAuthenticate, "", JsonBytes(response_data))

(* decode_header and header.kid: the kid, or Err("Invalid token format"). *)
DecodeHeaderKid(token) ==
    IF token.format = "jwt" /\ token.kid.some
    THEN Some(token.kid.value)
    ELSE NoneOf("")

(* get_decoding_key after fetch_jwks: the key with this kid. *)
GetDecodingKey(ret, kid) ==
    IF ret.ok /\ kid \in ret.keys THEN Some(kid) ELSE NoneOf("")

(* A decode that does not verify the signature. *)
DecodeUnverified(token, key, provider, instant) ==
    /\ token.iss = provider.issuer
    /\ (provider.audience.some /\ provider.audience.value # "")
           => (token.aud.some /\ token.aud.value = provider.audience.value)
    /\ token.exp > instant

(* decode::<Claims>(token, &decoding_key, &validation): the signature, the   *)
(* issuer, the audience when the provider has a non-empty one, and exp. The  *)
(* tokens here carry no nbf.                                                 *)
Decode(token, key, provider, instant) ==
    /\ token.signer = key
    /\ token.iss = provider.issuer
    /\ (provider.audience.some /\ provider.audience.value # "")
           => (token.aud.some /\ token.aud.value = provider.audience.value)
    /\ token.exp > instant

(* A verify_token that hands the error of get_decoding_key to the client. *)
AfterJwksLeaky(config, req, ret, instant) ==
    LET provider == config.provider.value
        token == req.authorization.token
        key == GetDecodingKey(ret, token.kid.value)
    IN  IF key.some /\ Decode(token, key.value, provider, instant)
        THEN ForwardStart(req, UserContext(TRUE, token.sub, token.email, provider.name))
        ELSE IF ~ret.ok
        THEN Done(AuthErrorResponse(ret.error, req.host))
        ELSE Done(AuthErrorResponse("Token validation failed", req.host))

(* verify_token and verify_request after get_decoding_key's fetch_jwks has   *)
(* returned ret, then handle_authenticated_request up to the next await.     *)
AfterJwks(config, req, ret, instant) ==
    LET provider == config.provider.value
        token == req.authorization.token
        key == GetDecodingKey(ret, token.kid.value)
    IN  IF key.some /\ Decode(token, key.value, provider, instant)
        THEN ForwardStart(req, UserContext(TRUE, token.sub, token.email, provider.name))
        ELSE Done(AuthErrorResponse("Token validation failed", req.host))

(* handle_metadata_request *)
MetadataResponse(path, provider) ==
    AuthResponse(200, {"Content-Type", "Access-Control-Allow-Origin"},
                 NoWwwAuthenticate, path, TextBytes)

(* handle_cors_preflight's response *)
CorsPreflightResponse ==
    AuthResponse(204, {"Access-Control-Allow-Origin", "Access-Control-Allow-Methods",
                       "Access-Control-Allow-Headers", "Access-Control-Max-Age"},
                 NoWwwAuthenticate, "", EmptyBytes)

(* handle_authenticated_request and verify_request up to the first await.    *)
(* The registry holds at most one provider, so the loop runs at most once.   *)
HandleAuthenticatedStart(config, req) ==
    IF BuildRegistry(config) = <<>>
    THEN Done(AuthErrorResponse("No authentication providers configured", req.host))
    ELSE IF ~req.authorization.has
    THEN Done(AuthErrorResponse("Missing authorization header", req.host))
    ELSE IF ~ExtractBearerToken(req.authorization).some
    THEN Done(AuthErrorResponse("Invalid authorization header format", req.host))
    ELSE IF ~DecodeHeaderKid(req.authorization.token).some
    THEN Done(AuthErrorResponse("Invalid token format", req.host))
    ELSE Outcome("jwks", NoAuthResponse, NoContext, NoForward)

(* A handle_request that serves no metadata ahead of authentication. *)
HandleAuthRequestStartNoMetadata(config, req) ==
    IF ~config.loaded
    THEN Done(AuthResponse(500, {}, NoWwwAuthenticate, "{e}", TextBytes))
    ELSE IF ~config.enabled
    THEN ForwardStart(req, NoContext)
    ELSE IF req.method = "OPTIONS"
    THEN Done(CorsPreflightResponse)
    ELSE HandleAuthenticatedStart(config, req)

(* A handle_request that does not look at the enabled flag. *)
HandleAuthRequestStartAlwaysEnabled(config, req) ==
    IF ~config.loaded
    THEN Done(AuthResponse(500, {}, NoWwwAuthenticate, "{e}", TextBytes))
    ELSE IF req.path \in {PathProtectedResource, PathAuthorizationServer}
    THEN IF config.provider.some
         THEN Done(MetadataResponse(req.path, config.provider.value))
         ELSE Done(AuthResponse(500, {}, NoWwwAuthenticate,
                                "No authentication providers configured", TextBytes))
    ELSE IF req.method = "OPTIONS"
    THEN Done(CorsPreflightResponse)
    ELSE HandleAuthenticatedStart(config, req)

(* handle_request up to the first await. *)
HandleAuthRequestStart(config, req) ==
    IF ~config.loaded
    THEN Done(AuthResponse(500, {}, NoWwwAuthenticate, "{e}", TextBytes))
    ELSE IF ~config.enabled
    THEN ForwardStart(req, NoContext)
    ELSE IF req.path \in {PathProtectedResource, PathAuthorizationServer}
    THEN IF config.provider.some
         THEN Done(MetadataResponse(req.path, config.provider.value))
         ELSE Done(AuthResponse(500, {}, NoWwwAuthenticate,
                                "No authentication providers configured", TextBytes))
    ELSE IF req.method = "OPTIONS"
    THEN Done(CorsPreflightResponse)
    ELSE HandleAuthenticatedStart(config, req)

----------------------------------------------------------------------------
(* The state machine of the JWKS cache and the authentication gateway *)

(* The task that serves the authentication gateway's HTTP request; the other *)
(* tasks call fetch_jwks on behalf of other requests.                        *)
AuthTask == 1

IdleRequest == AuthRequest("POST", PathMcp, NoAuthorization, FALSE, EmptyBytes)

(* No request is being served by the authentication gateway. *)
AuthIdle ==
    /\ areq = IdleRequest
    /\ apc = "idle"
    /\ actx = NoContext
    /\ fwd = NoForward
    /\ aresp = NoAuthResponse

(* The handler code ends with out. *)
Continue(out) ==
    /\ apc' = out.next
    /\ aresp' = out.resp
    /\ actx' = out.ctx
    /\ fwd' = out.forward

(* fetch_jwks returns ret to its caller, which runs on: get_decoding_key     *)
(* when the task serves an HTTP request.                                     *)
Return(t, ret) ==
    IF t = AuthTask /\ apc = "jwks"
    THEN /\ task' = [task EXCEPT ![t] = IdleFrame]
         /\ Continue(AfterJwks(authConfig, areq, ret, now))
         /\ UNCHANGED <<authConfig, areq>>
    ELSE /\ task' = [task EXCEPT ![t] = Frame("returned", task[t].uri, task[t].jwks, ret)]
         /\ UNCHANGED authVars

(* A validation that accepts one byte more. *)
ValidUriOneMore(uri) == ~(UriLen(uri) = 0 \/ UriLen(uri) > MAX_URI_LEN + 1)

(* The URI validation at the head of fetch_jwks. *)
ValidUri(uri) == ~(UriLen(uri) = 0 \/ UriLen(uri) > MAX_URI_LEN)

(* The cache is empty, or warm, and no task is in fetch_jwks. *)
JwksStart ==
    /\ cache \in {EmptyCache, WarmCache}
    /\ now = Prefilled
    /\ task = [t \in Tasks |-> IdleFrame]
    /\ calls = 0

(* fetch_jwks is called: the URI is validated, then the read lock awaited. *)
FetchJwks(t, uri) ==
    /\ task[t].pc = "idle"
    /\ ~(t = AuthTask /\ apc # "idle")
    /\ calls < MaxCalls
    /\ calls' = calls + 1
    /\ IF ValidUri(uri)
       THEN task' = [task EXCEPT ![t] = Frame("read_wait", uri, NoKeys, Err(""))]
       ELSE task' = [task EXCEPT ![t] = Frame("returned", uri, NoKeys,
                                                Err("Invalid JWKS URI"))]
    /\ UNCHANGED <<cache, now, authVars>>

(* JWKS_CACHE.read().await returns the read guard. *)
ReadAcquire(t) ==
    /\ task[t].pc = "read_wait"
    /\ Writers = {}
    /\ task' = [task EXCEPT ![t].pc = "reading"]
    /\ UNCHANGED <<cache, now, calls, authVars>>

(* Under the read guard: a fresh entry is returned; otherwise the guard is   *)
(* dropped and the GET is sent.                                              *)
ReadCache(t) ==
    /\ task[t].pc = "reading"
    /\ LET hit == CacheLookup(cache, task[t].uri, now)
       IN  IF hit.some
           THEN Return(t, Ok(hit.value))
           ELSE task' = [task EXCEPT ![t].pc = "net"] /\ UNCHANGED authVars
    /\ UNCHANGED <<cache, now, calls>>

(* A reply handler that does not look at the status of the response. *)
JwksReplyAnyStatus(t, outcome) ==
    /\ task[t].pc = "net"
    /\ IF outcome.kind # "response"
       THEN Return(t, Err("Failed to fetch JWKS from {jwks_uri}: {e}"))
       ELSE IF ~outcome.json
       THEN Return(t, Err("serde_json error"))
       ELSE /\ task' = [task EXCEPT ![t] = Frame("write_wait", task[t].uri,
                                                   outcome.keys, task[t].ret)]
            /\ UNCHANGED authVars
    /\ UNCHANGED <<cache, now, calls>>

(* The GET completes: an error is returned; a 200 whose body parses as a     *)
(* JwksResponse goes on to the write lock.                                   *)
JwksReply(t, outcome) ==
    /\ task[t].pc = "net"
    /\ IF outcome.kind # "response"
       THEN Return(t, Err("Failed to fetch JWKS from {jwks_uri}: {e}"))
       ELSE IF outcome.status # 200
       THEN Return(t, Err("Failed to fetch JWKS: HTTP {status}"))
       ELSE IF ~outcome.json
       THEN Return(t, Err("serde_json error"))
       ELSE /\ task' = [task EXCEPT ![t] = Frame("write_wait", task[t].uri,
                                                   outcome.keys, task[t].ret)]
            /\ UNCHANGED authVars
    /\ UNCHANGED <<cache, now, calls>>

(* JWKS_CACHE.write().await returns the write guard. *)
WriteAcquire(t) ==
    /\ task[t].pc = "write_wait"
    /\ Writers = {} /\ Readers = {}
    /\ task' = [task EXCEPT ![t].pc = "write_check"]
    /\ UNCHANGED <<cache, now, calls, authVars>>

(* Under the write guard: if the cache is at max size, the oldest entry is   *)
(* removed.                                                                  *)
WriteEvict(t) ==
    /\ task[t].pc = "write_check"
    /\ IF AtMaxSize(cache)
       THEN \E oldest_key \in OldestKeys(cache) : cache' = CacheRemove(cache, oldest_key)
       ELSE cache' = cache
    /\ task' = [task EXCEPT ![t].pc = "write_insert"]
    /\ UNCHANGED <<now, calls, authVars>>

(* Under the write guard: the entry is inserted, the guard dropped and the   *)
(* keys returned.                                                            *)
WriteInsert(t) ==
    /\ task[t].pc = "write_insert"
    /\ cache' = CacheInsert(cache, task[t].uri, task[t].jwks, now)
    /\ Return(t, Ok(task[t].jwks))
    /\ UNCHANGED <<now, calls>>

(* The caller has taken the result; the task may call again. *)
Finish(t) ==
    /\ task[t].pc = "returned"
    /\ task' = [task EXCEPT ![t] = IdleFrame]
    /\ UNCHANGED <<cache, now, calls, authVars>>

(* Time passes. *)
Tick ==
    /\ now < Prefilled + MaxTicks * TickSeconds
    /\ now' = now + TickSeconds
    /\ UNCHANGED <<cache, task, calls, authVars>>

(* The authentication gateway after start-up, with its variables set. *)
AuthStart ==
    /\ spinVars \in ServingSettings
    /\ loadResult = FromSpinVars(spinVars)
    /\ authConfig \in ConfigSettings
    /\ ConfigLoadedAs(loadResult, authConfig)
    /\ AuthIdle
    /\ cache = EmptyCache
    /\ now = Prefilled
    /\ task = [t \in Tasks |-> IdleFrame]
    /\ calls = 0

(* An HTTP request arrives and handle_request runs to its first await or to  *)
(* its return.  verify_token's call of get_decoding_key calls fetch_jwks,    *)
(* which returns at once for an invalid URI.                                 *)
AuthReceive(req) ==
    /\ apc = "idle"
    /\ task[AuthTask].pc = "idle"
    /\ areq' = req
    /\ LET out == HandleAuthRequestStart(authConfig, req)
           uri == authConfig.provider.value.jwks_uri
       IN  IF out.next # "jwks"
           THEN Continue(out) /\ UNCHANGED task
           ELSE IF ValidUri(uri)
           THEN /\ Continue(out)
                /\ task' = [task EXCEPT ![AuthTask] =
                                Frame("read_wait", uri, NoKeys, Err(""))]
           ELSE /\ Continue(AfterJwks(authConfig, req, Err("Invalid JWKS URI"), now))
                /\ UNCHANGED task
    /\ UNCHANGED <<authConfig, cache, now, calls>>

(* Another request's fetch_jwks for the provider's URI runs its write block  *)
(* with the key set it fetched.  This happens only when authentication is    *)
(* enabled and a provider is configured.                                     *)
OtherRequestInsert(jwks) ==
    /\ authConfig.loaded /\ authConfig.enabled /\ authConfig.provider.some
    /\ ValidUri(authConfig.provider.value.jwks_uri)
    /\ Writers = {} /\ Readers = {}
    /\ \E kept \in IF AtMaxSize(cache)
                   THEN {CacheRemove(cache, oldest_key) : oldest_key \in OldestKeys(cache)}
                   ELSE {cache} :
           cache' = CacheInsert(kept, authConfig.provider.value.jwks_uri, jwks, now)
    /\ UNCHANGED <<now, task, calls, authVars>>

(* The send to the MCP gateway completes and the response is returned. *)
ForwardComplete(outcome) ==
    /\ apc = "forwarding"
    /\ aresp' = ForwardFinish(actx, outcome)
    /\ apc' = "done"
    /\ UNCHANGED <<authConfig, areq, actx, fwd, jwksVars>>

(* The response has been delivered; the next request may arrive. *)
AuthClose ==
    /\ apc = "done"
    /\ areq' = IdleRequest
    /\ apc' = "idle"
    /\ actx' = NoContext
    /\ fwd' = NoForward
    /\ aresp' = NoAuthResponse
    /\ UNCHANGED <<authConfig, jwksVars>>

----------------------------------------------------------------------------
(* Specifications *)

(* The MCP gateway is not serving. *)
McpIdle ==
    /\ toolComponents = VarUnset(<<>>)
    /\ validateVar = VarUnset("")
    /\ mreq = [method |-> "GET", body |-> GarbageBody]
    /\ mpc = "idle"
    /\ results = <<>>
    /\ arrival = <<>>
    /\ sent = <<>>
    /\ replies = <<>>
    /\ mresp = NoResponse

(* The variables are set and from_spin_vars has not been called. *)
ConfigStart ==
    /\ spinVars \in VariableSettings
    /\ loadResult = NotLoaded

(* handle_request calls GatewayConfig::from_spin_vars. *)
LoadConfig ==
    /\ ~loadResult.called
    /\ loadResult' = FromSpinVars(spinVars)
    /\ UNCHANGED spinVars

(* No variable is set and nothing has been loaded. *)
ConfigIdle ==
    /\ spinVars = NoVariables
    /\ loadResult = NotLoaded

(* The authentication gateway is not serving. *)
AuthGatewayIdle ==
    /\ authConfig = GatewayConfig(TRUE, FALSE, NoneOf(AuthKit))
    /\ AuthIdle
    /\ cache = EmptyCache
    /\ now = 0
    /\ task = [t \in Tasks |-> IdleFrame]
    /\ calls = 0

InitMcp == McpStart /\ AuthGatewayIdle /\ ConfigIdle

SpecMcp == InitMcp /\ [][NextMcp]_vars

(* A backend that accepts the metadata GET and never answers it: send has no *)
(* timeout, so its future never completes.                                   *)
Unresponsive(tool_name) == tool_name = NameGhost

(* The tools/list requests of clients. *)
ListRequests ==
    {req \in HttpRequests :
         /\ req.method = "POST"
         /\ req.body.kind = "json"
         /\ ParseJsonRpcRequest(req.body).ok
         /\ req.body.method = "tools/list"
         /\ req.body.params = ParamsAbsent}

(* The metadata GET of slot i is answered, by a backend that answers. *)
ListFetchAnswered(i, outcome) ==
    /\ ~Unresponsive(ToolNames[i])
    /\ ListFetchComplete(i, outcome)

NextMcpList ==
    \/ \E req \in ListRequests : McpReceive(req)
    \/ \E i \in DOMAIN results : \E outcome \in GetOutcomes(ToolNames[i]) :
           ListFetchAnswered(i, outcome)
    \/ McpClose

(* The executor polls a future whose request has been answered, and the task *)
(* of a request whose response is written ends; a client need not send       *)
(* anything.                                                                 *)
FairMcpList ==
    /\ WF_vars(\E i \in DOMAIN results : \E outcome \in GetOutcomes(ToolNames[i]) :
                   ListFetchAnswered(i, outcome))
    /\ WF_vars(McpClose)

(* The MCP gateway serving tools/list requests, with fairness. *)
SpecMcpList == InitMcp /\ [][NextMcpList]_vars /\ FairMcpList

NextJwks ==
    \/ \E t \in Tasks, uri \in CallUris : FetchJwks(t, uri) /\ UNCHANGED <<mcpVars, configVars>>
    \/ \E t \in Tasks : ReadAcquire(t) /\ UNCHANGED <<mcpVars, configVars>>
    \/ \E t \in Tasks : ReadCache(t) /\ UNCHANGED <<mcpVars, configVars>>
    \/ \E t \in Tasks, outcome \in JwksOutcomes : JwksReply(t, outcome) /\ UNCHANGED <<mcpVars, configVars>>
    \/ \E t \in Tasks : WriteAcquire(t) /\ UNCHANGED <<mcpVars, configVars>>
    \/ \E t \in Tasks : WriteEvict(t) /\ UNCHANGED <<mcpVars, configVars>>
    \/ \E t \in Tasks : WriteInsert(t) /\ UNCHANGED <<mcpVars, configVars>>
    \/ \E t \in Tasks : Finish(t) /\ UNCHANGED <<mcpVars, configVars>>
    \/ Tick /\ UNCHANGED <<mcpVars, configVars>>

InitJwks ==
    /\ JwksStart
    /\ McpIdle
    /\ authConfig = GatewayConfig(TRUE, FALSE, NoneOf(AuthKit))
    /\ AuthIdle
    /\ ConfigIdle

SpecJwks == InitJwks /\ [][NextJwks]_vars

NextAuth ==
    \/ \E req \in AuthRequests : AuthReceive(req) /\ UNCHANGED <<mcpVars, configVars>>
    \/ \E outcome \in DownstreamOutcomes : ForwardComplete(outcome) /\ UNCHANGED <<mcpVars, configVars>>
    \/ AuthClose /\ UNCHANGED <<mcpVars, configVars>>
    \/ \E jwks \in {KeysOne, KeysTwo} : OtherRequestInsert(jwks) /\ UNCHANGED <<mcpVars, configVars>>
    \/ \E t \in Tasks : ReadAcquire(t) /\ UNCHANGED <<mcpVars, configVars>>
    \/ \E t \in Tasks : ReadCache(t) /\ UNCHANGED <<mcpVars, configVars>>
    \/ \E t \in Tasks, outcome \in JwksOutcomes : JwksReply(t, outcome) /\ UNCHANGED <<mcpVars, configVars>>
    \/ \E t \in Tasks : WriteAcquire(t) /\ UNCHANGED <<mcpVars, configVars>>
    \/ \E t \in Tasks : WriteEvict(t) /\ UNCHANGED <<mcpVars, configVars>>
    \/ \E t \in Tasks : WriteInsert(t) /\ UNCHANGED <<mcpVars, configVars>>
    \/ Tick /\ UNCHANGED <<mcpVars, configVars>>

InitAuth == AuthStart /\ McpIdle

SpecAuth == InitAuth /\ [][NextAuth]_vars

NextConfig == LoadConfig /\ UNCHANGED <<mcpVars, jwksVars, authVars>>

InitConfig == ConfigStart /\ McpIdle /\ AuthGatewayIdle

SpecConfig == InitConfig /\ [][NextConfig]_vars

(* The request being served is a tools/call. *)
ServingToolsCall == ServingJsonRpc /\ Request.method = "tools/call"

(* The outcome of the POST of the tools/call, once it has completed. *)
PostReply == replies[Len(replies)]
PostCompleted == PostIssued /\ Answered

(* The backend answered 200 with a body that is a Tool Response: a JSON      *)
(* object with a content array of well-formed items.                         *)
BackendGaveToolResponse ==
    /\ PostCompleted
    /\ PostReply.kind = "response"
    /\ PostReply.status = 200
    /\ PostReply.body.kind = "json"
    /\ "content" \in PostReply.body.has
    /\ \A k \in DOMAIN PostReply.body.content :
           PostReply.body.content[k].type = "text"

(* The result member of the JSON-RPC response. *)
WireResult == Wire.payload.result

(* C13: when the POST to the backend is answered with a status other than    *)
(* 200, the tools/call gets a success result with isError true and exactly   *)
(* one text item "Tool execution failed (status <code>): <body>".            *)
C13_BackendStatusIsToolError ==
    (ServingToolsCall /\ PostCompleted /\ PostReply.kind = "response"
         /\ PostReply.status # 200)
        => /\ Wire.keys \cap {"result", "error"} = {"result"}
           /\ "isError" \in WireResult.has
           /\ WireResult.isError
           /\ Len(WireResult.content) = 1
           /\ WireResult.content[1].type = "text"
           /\ WireResult.content[1].text.kind = "Tool execution failed (status {}): {}"
           /\ WireResult.content[1].text.detail = <<PostReply.status, PostReply.body>>

(* C13 witness: the backend answered 404 with a body that is a well-formed   *)
(* Tool Response, and the call was still answered with the tool error.       *)
C13_Witness ==
    /\ ServingToolsCall /\ PostCompleted
    /\ PostReply.status = 404
    /\ "content" \in PostReply.body.has
    /\ "result" \in Wire.keys
    /\ WireResult.isError
    /\ WireResult.content[1].text.kind = "Tool execution failed (status {}): {}"

(* C14: a tools/call answered with a success result either had its backend   *)
(* answer 200 with a Tool Response, or has isError true.                     *)
C14_SuccessIsBackendOrToolError ==
    (ServingToolsCall /\ Answered /\ "result" \in Wire.keys)
        => \/ BackendGaveToolResponse
           \/ "isError" \in WireResult.has /\ WireResult.isError

(* C14 witness: a success result without isError, from a backend that        *)
(* answered 200 with content and structuredContent.                          *)
C14_Witness ==
    /\ ServingToolsCall /\ Answered /\ "result" \in Wire.keys
    /\ BackendGaveToolResponse
    /\ WireResult.has = {"content", "structuredContent"}

(* C15: a tools/call whose POST fails at transport level, or is answered 200 *)
(* with a body that is no Tool Response, gets error -32603 with the id of    *)
(* the request.                                                              *)
C15_TransportOrFormatIsInternalError ==
    (ServingToolsCall /\ PostCompleted
         /\ (PostReply.kind = "transport_error"
                \/ (PostReply.status = 200 /\ ~BackendGaveToolResponse)))
        => /\ Wire.keys \cap {"result", "error"} = {"error"}
           /\ Wire.payload.error.code = -32603
           /\ Wire.id = Request.id
           /\ ("id" \in Wire.keys) = (Request.id # None)

(* C15 witness: the backend answered 200 with a content item of an unknown   *)
(* type, and the call with id "abc" got -32603 with that id.                 *)
C15_Witness ==
    /\ ServingToolsCall /\ PostCompleted
    /\ PostReply.kind = "response" /\ PostReply.status = 200
    /\ PostReply.body.content = <<UnknownItem>>
    /\ "error" \in Wire.keys
    /\ Wire.payload.error.code = -32603
    /\ Wire.id = "abc"

(* The request being served is a POST whose body is no JSON-RPC request. *)
ServingUnparseable == mpc # "idle" /\ mreq.method = "POST" /\ ~Request.ok

(* C16: a POST whose body is no parseable JSON-RPC request is answered with  *)
(* HTTP 200 and a JSON-RPC error with code -32700 and "id": null, and no     *)
(* backend request is issued.                                                *)
C16_ParseErrorHasNullId ==
    ServingUnparseable
        => /\ Answered
           /\ sent = <<>>
           /\ mresp.status = 200
           /\ mresp.body.kind = "json"
           /\ Wire.keys \cap {"result", "error"} = {"error"}
           /\ Wire.payload.error.code = -32700
           /\ "id" \in Wire.keys
           /\ Wire.id = None

(* C17: every POST is answered with HTTP status 200. *)
C17_PostIsAlways200 ==
    (mreq.method = "POST" /\ Answered) => mresp.status = 200

(* C17 witness: a tools/call whose POST to the backend failed at transport   *)
(* level, answered with status 200 and a JSON-RPC error in the body.         *)
C17_Witness ==
    /\ ServingToolsCall /\ PostCompleted
    /\ PostReply.kind = "transport_error"
    /\ mresp.status = 200
    /\ "error" \in Wire.keys

CorsPreflightHeaders ==
    {<<"Access-Control-Allow-Origin", "*">>,
     <<"Access-Control-Allow-Methods", "POST, OPTIONS">>,
     <<"Access-Control-Allow-Headers", "Content-Type">>}

(* C18: OPTIONS is answered 204 with the CORS headers, any other method but  *)
(* POST is answered 405 with Allow: POST, OPTIONS, and neither has its body  *)
(* parsed or passed to a handler or a backend.                               *)
C18_OptionsIs204OthersAre405 ==
    (mpc # "idle" /\ mreq.method # "POST")
        => /\ Answered
           /\ sent = <<>>
           /\ mresp.body.kind # "json"
           /\ IF mreq.method = "OPTIONS"
              THEN mresp.status = 204 /\ CorsPreflightHeaders \subseteq mresp.headers
              ELSE mresp.status = 405
                       /\ <<"Allow", "POST, OPTIONS">> \in mresp.headers

KnownMethods == {"initialize", "initialized", "ping", "tools/list", "tools/call"}

(* C19: a request whose method is none of the five known ones is answered    *)
(* with error -32601 and the id of the request, and no backend request is    *)
(* issued for it.                                                            *)
C19_UnknownMethodNotFound ==
    (ServingJsonRpc /\ Request.method \notin KnownMethods)
        => /\ Answered
           /\ sent = <<>>
           /\ mresp.body.kind = "json"
           /\ Wire.keys \cap {"result", "error"} = {"error"}
           /\ Wire.payload.error.code = -32601
           /\ Wire.id = Request.id
           /\ ("id" \in Wire.keys) = (Request.id # None)

(* C19 witness: tools/destroy with id "abc" and tools configured, answered   *)
(* with -32601 and id "abc".                                                 *)
C19_Witness ==
    /\ ServingJsonRpc /\ Answered
    /\ Request.method = "tools/destroy"
    /\ toolComponents.set /\ toolComponents.value # <<>>
    /\ Wire.payload.error.code = -32601
    /\ "id" \in Wire.keys
    /\ Wire.id = "abc"

(* The request being served is an initialize with all the members of an      *)
(* InitializeRequest.                                                        *)
ServingInitialize ==
    /\ ServingJsonRpc
    /\ Request.method = "initialize"
    /\ Request.params.kind = "object"
    /\ {"protocolVersion", "capabilities", "clientInfo"} \subseteq Request.params.has

(* C20: an initialize with a protocolVersion outside the supported set is    *)
(* answered with error -32001; one with a supported version is answered with *)
(* a success result that echoes the version.                                 *)
C20_UnsupportedVersionIs32001 ==
    (ServingInitialize /\ Answered)
        => IF Request.params.protocolVersion = V1
           THEN /\ "result" \in Wire.keys
                /\ WireResult.protocolVersion = Request.params.protocolVersion
           ELSE /\ "error" \in Wire.keys
                /\ Wire.payload.error.code = -32001

(* Nothing of a request is held: the state of the gateway between requests.  *)
McpBetweenRequests ==
    /\ mpc = "idle"
    /\ mreq = [method |-> "GET", body |-> GarbageBody]
    /\ results = <<>>
    /\ arrival = <<>>
    /\ sent = <<>>
    /\ replies = <<>>
    /\ mresp = NoResponse

(* The request being served is a ping or an initialize. *)
ServingPingOrInitialize ==
    ServingJsonRpc /\ Request.method \in {"ping", "initialize"}

MetadataUnavailable ==
    /\ sent # <<>> /\ sent[1].verb = "GET"
    /\ replies[1].kind # "pending"
    /\ ~FetchSucceeded(1)

(* C32: with validation enabled, a call whose metadata GET fails (transport  *)
(* error, status other than 200, unparseable body) is not validated: the     *)
(* POST is issued to the tool with the client's arguments as they are.       *)
C32_NoMetadataSkipsValidation ==
    (ServingCall /\ ValidateArgumentsFlag(validateVar) /\ MetadataUnavailable)
        => /\ Len(sent) = 2
           /\ sent[2] = BackendPost(ToolUrl(Request.params.name),
                                    ToolArguments(Request.params))

(* C32 witness: the metadata GET was answered 500; arguments that the tool's *)
(* schema would reject have been posted to the tool.                         *)
C32_Witness ==
    /\ ServingCall
    /\ ValidateArgumentsFlag(validateVar)
    /\ MetadataUnavailable
    /\ replies[1].kind = "response" /\ replies[1].status = 500
    /\ ToolArguments(Request.params) = ArgsBad
    /\ IterErrors(InputSchemaOf(Request.params.name), ArgsBad) # {}
    /\ sent[2].verb = "POST" /\ sent[2].body = ArgsBad

(* The backend requests of the call with verb v, by their position. *)
SentWith(v) == {k \in DOMAIN sent : sent[k].verb = v}

(* C34: a tools/call issues at most one metadata GET and at most one POST;   *)
(* the GET, when issued, has completed before the POST is issued; a request  *)
(* that failed is not issued again; with validation off no GET is issued.    *)
C34_OneGetThenOnePost ==
    (ServingJsonRpc /\ Request.method = "tools/call")
        => /\ Cardinality(SentWith("GET")) <= 1
           /\ Cardinality(SentWith("POST")) <= 1
           /\ Len(sent) <= 2
           /\ \A k \in SentWith("GET"), l \in SentWith("POST") :
                  k < l /\ replies[k].kind # "pending"
           /\ ~ValidateArgumentsFlag(validateVar) => SentWith("GET") = {}
           /\ Answered => \A k \in DOMAIN replies : replies[k].kind # "pending"

(* C34 witness: the metadata GET and the POST of a call both failed in       *)
(* transport; the call was answered after these two requests.                *)
C34_Witness ==
    /\ ServingCall /\ Answered
    /\ Len(sent) = 2
    /\ sent[1].verb = "GET" /\ sent[2].verb = "POST"
    /\ replies[1].kind = "transport_error"
    /\ replies[2].kind = "transport_error"

(* C33: every tools/list request is eventually answered, even when backends  *)
(* never answer their metadata GET.                                          *)
C33_ListAlwaysAnswered == ServingList ~> Answered

(* Every backend named in tool_components answers its metadata GET. *)
AllResponsive == \A i \in DOMAIN ToolNames : ~Unresponsive(ToolNames[i])

(* A tools/list whose backends all answer, be it with an error, is           *)
(* eventually answered.                                                      *)
ListOfResponsiveAnswered == (ServingList /\ AllResponsive) ~> Answered

(* A tools/list has been answered. *)
ListAnswered == ServingList /\ Answered

----------------------------------------------------------------------------
(* Properties of the JWKS cache *)

(* C10: the JWKS cache never holds more than 100 entries. *)
C10_CacheAtMostMax == Cardinality(DOMAIN cache) <= 100

(* C10 witness: two tasks have fetched key sets for two new URIs at the same *)
(* time; the second insertion found the cache at 100 entries, and the cache  *)
(* holds 100 entries with both new URIs in it.                               *)
C10_Witness ==
    /\ Cardinality(DOMAIN cache) = 100
    /\ {UriFreshA, UriFreshB} \subseteq DOMAIN cache
    /\ UriOldest \notin DOMAIN cache
    /\ \A t \in Tasks : task[t].pc = "returned" /\ task[t].ret.ok

(* C11, as stated: every entry stored in the cache is younger than five      *)
(* minutes whenever it is observed.                                          *)
C11_StoredEntriesYoung ==
    \A uri \in DOMAIN cache : now - cache[uri].timestamp < 300

(* The step is a cache hit of task t: fetch_jwks returns from under the read *)
(* guard.                                                                    *)
CacheHit(t) ==
    /\ task[t].pc = "reading"
    /\ task'[t].pc = "returned"

(* C11, amended: every key set that fetch_jwks returns from the cache is     *)
(* that of an entry younger than five minutes at the time of the read;       *)
(* older entries may stay stored, but are never returned.                    *)
C11_ReturnedEntriesYoung ==
    [][\A t \in Tasks :
           CacheHit(t) =>
               /\ task[t].uri \in DOMAIN cache
               /\ now - cache[task[t].uri].timestamp < 300
               /\ task'[t].ret = Ok(cache[task[t].uri].jwks)]_vars

(* C11 witness: a call has returned from the cache the key set of an entry   *)
(* stored some time before, while another stored entry is five minutes old   *)
(* or more.                                                                  *)
C11_Witness ==
    \E t \in Tasks :
        /\ task[t].pc = "returned" /\ task[t].ret.ok /\ task[t].jwks = NoKeys
        /\ task[t].uri \in DOMAIN cache
        /\ now - cache[task[t].uri].timestamp > 0
        /\ now - cache[task[t].uri].timestamp < 300
        /\ \E uri \in DOMAIN cache : now - cache[uri].timestamp >= 300

(* The network fetch failed: a transport error, a status other than 200, or  *)
(* a body that does not parse as a key set.                                  *)
FetchFailed(outcome) ==
    \/ outcome.kind = "transport_error"
    \/ outcome.status # 200
    \/ ~outcome.json

(* C12: when the network fetch of a call fails, the call returns an error    *)
(* and the step leaves the cache as it was; a call reaches the write block   *)
(* only with a key set it fetched.                                           *)
C12_FailedFetchLeavesCache ==
    [][\A t \in Tasks :
           /\ \A outcome \in JwksOutcomes :
                  (JwksReply(t, outcome) /\ FetchFailed(outcome))
                      => /\ task'[t].pc = "returned"
                         /\ ~task'[t].ret.ok
                         /\ cache' = cache
           /\ (task[t].pc = "returned" /\ ~task[t].ret.ok /\ task'[t].pc = "idle")
                  => cache' = cache]_vars

(* C12 witness: a refetch for a URI whose entry has expired was answered     *)
(* with a status other than 200; the call returned the error and the warm    *)
(* cache, the expired entry included, is as it was.                          *)
C12_Witness ==
    \E t \in Tasks :
        /\ task[t].pc = "returned"
        /\ task[t].uri = UriOldest
        /\ task[t].ret = Err("Failed to fetch JWKS: HTTP {status}")
        /\ cache = WarmCache
        /\ now - cache[UriOldest].timestamp >= 300

(* Task t is inside fetch_jwks, past the validation of its URI. *)
PastValidation(t) ==
    task[t].pc \in {"read_wait", "reading", "net", "write_wait", "write_check",
                    "write_insert"}

(* C30: fetch_jwks returns an error for a URI that is empty or longer than   *)
(* 2048 bytes, before any cache lookup or network request and leaving the    *)
(* cache unchanged; a URI of 1 to 2048 bytes goes on to the cache lookup.    *)
C30_UriLengthChecked ==
    [][\A t \in Tasks :
           /\ \A uri \in CallUris :
                  FetchJwks(t, uri)
                      => IF UriLen(uri) = 0 \/ UriLen(uri) >= 2049
                         THEN /\ task'[t].pc = "returned"
                              /\ task'[t].ret = Err("Invalid JWKS URI")
                              /\ cache' = cache
                         ELSE task'[t].pc = "read_wait"
           /\ PastValidation(t)
                  => UriLen(task[t].uri) >= 1 /\ UriLen(task[t].uri) <= 2048]_vars

(* C30 witness: with the cache warm, one call with a URI of 2049 bytes has   *)
(* returned the error while another with a URI of 2048 bytes has gone on to  *)
(* the network, and the cache is as it was.                                  *)
C30_Witness ==
    \E t, u \in Tasks :
        /\ task[t].pc = "returned"
        /\ task[t].uri = UriTooLong
        /\ UriLen(task[t].uri) = 2049
        /\ task[t].ret = Err("Invalid JWKS URI")
        /\ task[u].pc = "net"
        /\ task[u].uri = UriFreshB
        /\ UriLen(task[u].uri) = 2048
        /\ cache = WarmCache

(* A key set that task t fetched: the body of a 200 that parsed.             *)
FetchedKeys == {outcome.keys : outcome \in {o \in JwksOutcomes : ~FetchFailed(o)}}

(* The step of task t that ends its write block: the insertion, the drop of  *)
(* the write guard and the return.                                           *)
InsertStep(t) == task[t].pc = "write_insert" /\ task'[t].pc = "returned"

(* C35: no task holds the read or the write lock of the JWKS cache while its *)
(* JWKS network request is in flight: the read lock is released before the   *)
(* GET is sent, and the write lock is acquired only by a task whose GET has  *)
(* been answered and whose response has been parsed.                         *)
C35_NoLockAcrossFetch ==
    [][\A t \in Tasks :
           /\ task'[t].pc = "net" => t \notin (Readers' \cup Writers')
           /\ (task'[t].pc = "net" /\ task[t].pc # "net")
                  => t \in Readers /\ t \notin Readers'
           /\ (t \in Writers' /\ t \notin Writers)
                  => /\ task[t].pc = "write_wait"
                     /\ task[t].jwks \in FetchedKeys
           /\ (task'[t].pc = "write_wait" /\ task[t].pc # "write_wait")
                  => task[t].pc = "net"]_vars

(* C35 witness: the GET of one task is in flight while another task holds    *)
(* the write lock.                                                           *)
C35_Witness ==
    \E t, u \in Tasks :
        /\ task[t].pc = "net"
        /\ task[u].pc = "write_check"
        /\ u \in Writers
        /\ t \notin Readers \cup Writers

(* C36: the write block of fetch_jwks removes exactly one entry, one with    *)
(* the least fetched_at, when it finds 100 entries or more, and none when it *)
(* finds fewer; the insertion removes nothing; and from the size check to    *)
(* the insertion the task holds the write lock alone, so that no other task  *)
(* reads or changes the cache in between.                                    *)
C36_EvictOldestWhenFull ==
    [][\A t \in Tasks :
           /\ (task[t].pc = "write_check" /\ task'[t].pc = "write_insert")
                  => IF Cardinality(DOMAIN cache) >= 100
                     THEN \E u \in DOMAIN cache :
                              /\ \A w \in DOMAIN cache :
                                     cache[u].timestamp <= cache[w].timestamp
                              /\ DOMAIN cache' = DOMAIN cache \ {u}
                              /\ \A w \in DOMAIN cache' : cache'[w] = cache[w]
                     ELSE cache' = cache
           /\ InsertStep(t)
                  => /\ DOMAIN cache' = DOMAIN cache \cup {task[t].uri}
                     /\ \A w \in DOMAIN cache \ {task[t].uri} : cache'[w] = cache[w]
           /\ t \in Writers
                  => /\ Writers = {t}
                     /\ Readers = {}
                     /\ task'[t] = task[t]
                            => cache' = cache /\ Readers' = {} /\ Writers' = {t}]_vars

(* C36 witness: a task holding the write lock found 100 entries, removed the *)
(* oldest one and is about to insert its own.                                *)
C36_Witness ==
    \E t \in Tasks :
        /\ task[t].pc = "write_insert"
        /\ Cardinality(DOMAIN cache) = 99
        /\ UriOldest \notin DOMAIN cache
        /\ task[t].uri \notin DOMAIN cache

(* C37: the cache lookup of fetch_jwks returns the cached keys, with no      *)
(* network request, exactly when the cache holds an entry for the URI whose  *)
(* age is less than 300 seconds; otherwise (no entry, or an age of 300       *)
(* seconds or more) the GET is sent, and a successful fetch stores the       *)
(* fetched keys with the time of the insertion and returns them.             *)
C37_CachedIffYoung ==
    [][\A t \in Tasks :
           /\ (task[t].pc = "reading" /\ task'[t].pc # "reading")
                  => IF /\ task[t].uri \in DOMAIN cache
                        /\ now - cache[task[t].uri].timestamp < 300
                     THEN /\ task'[t].pc = "returned"
                          /\ task'[t].ret = Ok(cache[task[t].uri].jwks)
                     ELSE task'[t].pc = "net"
           /\ (task[t].pc = "net" /\ task'[t].pc = "write_wait")
                  => task'[t].jwks \in FetchedKeys
           /\ InsertStep(t)
                  => /\ cache'[task[t].uri].jwks = task[t].jwks
                     /\ cache'[task[t].uri].timestamp = now'
                     /\ task'[t].ret = Ok(task[t].jwks)
                     /\ task[t].jwks \in FetchedKeys]_vars

(* C37 witness: a GET is in flight for a URI whose entry is exactly 300      *)
(* seconds old.                                                              *)
C37_Witness ==
    \E t \in Tasks :
        /\ task[t].pc = "net"
        /\ task[t].uri \in DOMAIN cache
        /\ now - cache[task[t].uri].timestamp = 300

(* C40: concurrent calls of fetch_jwks for one URI each insert under the     *)
(* write lock, held alone: after an insertion the cache holds, as its one    *)
(* entry for the URI, the keys of that insertion and its time, the call      *)
(* returns the keys it fetched itself, an entry changes only by an           *)
(* insertion for its URI, and the cache does not change while a task holds   *)
(* the read lock.                                                            *)
C40_ConcurrentFetchesLastWins ==
    [][/\ \A t \in Tasks :
              InsertStep(t)
                  => /\ Writers = {t}
                     /\ Readers = {}
                     /\ cache'[task[t].uri] = Entry(task[t].jwks, now)
                     /\ task'[t].ret = Ok(task[t].jwks)
                     /\ task'[t].jwks = task[t].jwks
       /\ \A uri \in DOMAIN cache \cap DOMAIN cache' :
              cache'[uri] # cache[uri]
                  => \E t \in Tasks : InsertStep(t) /\ task[t].uri = uri
       /\ Readers # {} => cache' = cache]_vars

(* C40 witness: two calls for one URI that the cache did not hold were in    *)
(* flight together (no time has passed, so neither found a fresh entry) and  *)
(* fetched different key sets; each has returned its own, and the cache      *)
(* holds the key set of the one that inserted last.                          *)
C40_Witness ==
    /\ \A t \in Tasks :
           /\ task[t].pc = "returned"
           /\ task[t].uri = UriFreshA
           /\ task[t].ret = Ok(task[t].jwks)
    /\ task[1].jwks = KeysOne
    /\ task[2].jwks = KeysTwo
    /\ cache[UriFreshA] = Entry(KeysOne, now)
    /\ now = Prefilled

----------------------------------------------------------------------------
(* Properties of the authentication gateway *)

(* Authentication is enabled and a request is being served, or has been. *)
ServingEnabled == authConfig.loaded /\ authConfig.enabled /\ apc # "idle"

(* The request is one that requires authentication. *)
RequiresAuth ==
    /\ areq.path \notin {PathProtectedResource, PathAuthorizationServer}
    /\ areq.method # "OPTIONS"

(* The token cannot pass the provider's verification, whatever keys the JWKS *)
(* holds: it is not a JWT, names no key, is not signed by the key it names,  *)
(* or its issuer, audience or expiry is wrong.                               *)
TokenInvalid(token, provider) ==
    \/ token.format # "jwt"
    \/ ~token.kid.some
    \/ token.signer # token.kid.value
    \/ token.iss # provider.issuer
    \/ provider.audience.some /\ ~(token.aud.some /\ token.aud.value = provider.audience.value)
    \/ token.exp <= now

(* The request carries no credentials that can be verified. *)
CredentialsInvalid ==
    \/ ~authConfig.provider.some
    \/ ~areq.authorization.has
    \/ areq.authorization.scheme # "Bearer "
    \/ TokenInvalid(areq.authorization.token, authConfig.provider.value)

(* C1: with authentication enabled, a request that requires authentication  *)
(* is forwarded to the MCP gateway only after verify_request succeeded for   *)
(* it; if its Authorization header is missing or not a Bearer header, or     *)
(* its token fails verification, nothing is forwarded for it.                *)
C1_ForwardOnlyAfterVerify ==
    (ServingEnabled /\ RequiresAuth)
        => /\ fwd.sent => actx.some
           /\ (CredentialsInvalid \/ aresp.status = 401) => ~fwd.sent

(* C1 witness: a request with a forged token was taken through the JWKS      *)
(* fetch, which stored the key the token names, and was refused without      *)
(* anything being forwarded.                                                 *)
C1_Witness ==
    /\ ServingEnabled /\ RequiresAuth /\ apc = "done"
    /\ areq.authorization = Authorization(TRUE, "Bearer ", TokForged)
    /\ UriFreshA \in DOMAIN cache /\ cache[UriFreshA].jwks = KeysOne
    /\ aresp.status = 401
    /\ ~fwd.sent

(* C2: with authentication enabled, a request that requires authentication  *)
(* and fails it (no provider, missing or malformed header, invalid token,    *)
(* or verify_request returning an error for any other reason) is answered    *)
(* with status 401 and a WWW-Authenticate header.                            *)
C2_AuthFailureIs401 ==
    (ServingEnabled /\ RequiresAuth /\ apc = "done" /\ (CredentialsInvalid \/ ~actx.some))
        => /\ aresp.status = 401
           /\ "WWW-Authenticate" \in aresp.headers
           /\ aresp.www.has

(* C2 witness: with no provider configured, a request with a good token has  *)
(* been answered 401 with the header.                                        *)
C2_Witness ==
    /\ ServingEnabled /\ RequiresAuth /\ apc = "done"
    /\ ~authConfig.provider.some
    /\ areq.authorization = Authorization(TRUE, "Bearer ", TokGood)
    /\ aresp.status = 401
    /\ aresp.www = WwwAuthenticate(TRUE, "No authentication providers configured", areq.host)

(* The request is for one of the two metadata endpoints. *)
MetadataPath == areq.path \in {PathProtectedResource, PathAuthorizationServer}

(* The 500 of handle_metadata_endpoints when the registry is empty. *)
NoProviderResponse ==
    AuthResponse(500, {}, NoWwwAuthenticate, "No authentication providers configured",
                 TextBytes)

(* C21 as stated: a request to a metadata endpoint is always answered by the *)
(* gateway itself with the provider's metadata, never with 401 and never by  *)
(* forwarding it downstream.                                                 *)
C21_MetadataAlwaysServed ==
    (authConfig.loaded /\ apc # "idle" /\ MetadataPath)
        => /\ apc = "done"
           /\ ~fwd.sent
           /\ aresp.status # 401
           /\ aresp.status = 200

(* C21 amended: with authentication enabled, a request to a metadata         *)
(* endpoint is answered at once, whatever its Authorization header and       *)
(* method: with the provider's metadata when a provider is configured, with  *)
(* a 500 when none is; never with 401 and never by forwarding it.            *)
C21_MetadataServedWhenEnabled ==
    (ServingEnabled /\ MetadataPath)
        => /\ apc = "done"
           /\ ~fwd.sent
           /\ ~actx.some
           /\ aresp.status # 401
           /\ ~aresp.www.has
           /\ aresp = IF authConfig.provider.some
                      THEN MetadataResponse(areq.path, authConfig.provider.value)
                      ELSE NoProviderResponse

(* C21 witness: a POST with a forged token to the protected-resource         *)
(* endpoint was answered 200 with the metadata and nothing was forwarded.    *)
C21_Witness ==
    /\ ServingEnabled /\ apc = "done"
    /\ areq.path = PathProtectedResource
    /\ areq.method = "POST"
    /\ areq.authorization = Authorization(TRUE, "Bearer ", TokForged)
    /\ aresp.status = 200
    /\ aresp.text = PathProtectedResource
    /\ ~fwd.sent

(* C22: with authentication enabled, an OPTIONS request to any path is      *)
(* answered with status 204 and the CORS preflight headers, without          *)
(* authentication and without forwarding it downstream.                     *)
C22_OptionsIsPreflightOnAnyPath ==
    (ServingEnabled /\ areq.method = "OPTIONS")
        => /\ apc = "done"
           /\ ~fwd.sent
           /\ ~actx.some
           /\ aresp.status = 204
           /\ {"Access-Control-Allow-Origin", "Access-Control-Allow-Methods",
               "Access-Control-Allow-Headers"} \subseteq aresp.headers

(* Authentication is disabled and a request is being served, or has been. *)
ServingDisabled == authConfig.loaded /\ ~authConfig.enabled /\ apc # "idle"

Verified == ServingEnabled /\ actx.some

(* The user context of the verified token. *)
VerifiedUser ==
    UserContext(TRUE, areq.authorization.token.sub, areq.authorization.token.email,
                authConfig.provider.value.name)

(* C24: after successful verification, a forwarded request whose body has    *)
(* method initialize carries params._authContext with the token's sub and    *)
(* the provider's name; for any other method the forwarded JSON is the       *)
(* client's JSON.                                                            *)
C24_InitializeCarriesAuthContext ==
    (Verified /\ fwd.sent /\ areq.body.kind = "json" /\ areq.body.json.type = "object")
        => IF areq.body.json.method = "initialize"
           THEN /\ fwd.body.json.inserted.some
                /\ fwd.body.json.inserted.id = areq.authorization.token.sub
                /\ fwd.body.json.inserted.provider = authConfig.provider.value.name
           ELSE fwd.body = areq.body

(* C25: after successful verification, a downstream response with            *)
(* result.serverInfo is returned with serverInfo.authInfo.authenticated_user *)
(* equal to the token's sub, and one without is returned with the body of    *)
(* the downstream response.                                                  *)
C25_AuthInfoOnlyInServerInfo ==
    [][\A outcome \in DownstreamOutcomes :
           (Verified /\ ForwardComplete(outcome) /\ outcome.kind = "response")
               => IF outcome.body.kind = "json"
                         /\ outcome.body.json.result = "with_server_info"
                  THEN /\ aresp'.body.kind = "json"
                       /\ aresp'.body.json.inserted.some
                       /\ aresp'.body.json.inserted.id = areq.authorization.token.sub
                  ELSE aresp'.body = outcome.body]_vars

(* C26: the status returned for a downstream response is the status of that  *)
(* response; 502 of the proxy's own making is returned only when the send    *)
(* fails.                                                                    *)
C26_DownstreamStatusVerbatim ==
    [][\A outcome \in DownstreamOutcomes :
           ForwardComplete(outcome)
               => /\ outcome.kind = "response" => aresp'.status = outcome.status
                  /\ outcome.kind # "response" => aresp'.status = 502]_vars

(* forward_to_mcp_gateway has been called for the request being served. *)
ProxyCalled == ServingDisabled \/ Verified

VerifyTokenFailed ==
    /\ ServingEnabled /\ RequiresAuth /\ apc = "done"
    /\ authConfig.provider.some
    /\ areq.authorization.has
    /\ ExtractBearerToken(areq.authorization).some
    /\ aresp.status = 401

(* C38: when the verification of a token fails, the error_description of the *)
(* 401 (in the body and in WWW-Authenticate) is 'Invalid token format' if    *)
(* the header could not be decoded or has no kid, and 'Token validation      *)
(* failed' for every later failure; it is never any other text.              *)
C38_TwoErrorDescriptions ==
    VerifyTokenFailed
        => /\ aresp.www.description = aresp.text
           /\ aresp.text = IF DecodeHeaderKid(areq.authorization.token).some
                           THEN "Token validation failed"
                           ELSE "Invalid token format"

(* C38 witness: a token that would verify was refused because its key could  *)
(* not be had from the JWKS endpoint; the description is the constant.       *)
C38_Witness ==
    /\ VerifyTokenFailed
    /\ areq.authorization.token = TokGood
    /\ cache = EmptyCache
    /\ aresp.text = "Token validation failed"

(* The texts that stand for the Display of a library's error: serde_json,    *)
(* spin_sdk::http::send, jsonschema::validator_for, spin_sdk::variables.     *)
LibraryErrorTexts == {"serde error", "transport error", "jsonschema error", "variable error"}

(* The texts of the authentication gateway that hold the Display of an       *)
(* anyhow::Error ({e}).                                                      *)
AuthTextsWithError ==
    {"Gateway error: {e}",
     "Gateway error: Invalid JSON in request body: {e}",
     "Gateway error: Invalid JSON response from MCP gateway: {e}"}

(* The values put into a message of the MCP gateway. *)
Embedded(message) == {message.detail[k] : k \in DOMAIN message.detail}

(* No error.message of a JSON-RPC error of the MCP gateway embeds the text   *)
(* of a library's error.                                                     *)
McpMessagesClean ==
    (mresp.body.kind = "json" /\ "error" \in Wire.keys)
        => Embedded(Wire.payload.error.message) \cap LibraryErrorTexts = {}

(* Neither the error_description of a 401 nor the body of a 502 of the       *)
(* authentication gateway embeds the text of a library's error.              *)
AuthMessagesClean ==
    aresp.status \in {401, 502} => aresp.text \notin AuthTextsWithError

(* C39: no client-visible message of either gateway embeds internal          *)
(* diagnostic text such as the text of a library's error: not the            *)
(* error.message of the MCP gateway, nor the error_description of a 401 or   *)
(* the body of a 502 of the authentication gateway.                          *)
C39_NoDiagnosticsInMessages == McpMessagesClean /\ AuthMessagesClean

----------------------------------------------------------------------------
(* Properties of configuration loading *)

(* The provider type the variables name. *)
GivenType == IF spinVars.auth_provider_type.set THEN spinVars.auth_provider_type.value ELSE ""

(* The URL variables a provider of the given type takes its URLs from: those *)
(* that are set, and for the optional ones, not empty.                       *)
GivenUrls ==
    (IF spinVars.auth_provider_issuer.set
     THEN {<<"issuer", spinVars.auth_provider_issuer.value>>} ELSE {})
    \cup
    (IF spinVars.auth_provider_jwks_uri.set
           /\ (GivenType = "oidc" \/ spinVars.auth_provider_jwks_uri.value # NoText)
     THEN {<<"jwks_uri", spinVars.auth_provider_jwks_uri.value>>} ELSE {})
    \cup
    (IF GivenType = "oidc" /\ spinVars.auth_provider_authorize_endpoint.set
     THEN {<<"authorization_endpoint", spinVars.auth_provider_authorize_endpoint.value>>}
     ELSE {})
    \cup
    (IF GivenType = "oidc" /\ spinVars.auth_provider_token_endpoint.set
     THEN {<<"token_endpoint", spinVars.auth_provider_token_endpoint.value>>} ELSE {})
    \cup
    (IF GivenType = "oidc" /\ spinVars.auth_provider_userinfo_endpoint.set
           /\ spinVars.auth_provider_userinfo_endpoint.value # NoText
     THEN {<<"userinfo_endpoint", spinVars.auth_provider_userinfo_endpoint.value>>}
     ELSE {})

(* The URLs of the provider that was loaded, by member. *)
AcceptedUrls ==
    LET provider == loadResult.provider.value
    IN  {<<"issuer", provider.issuer>>}
        \cup (IF provider.jwks_uri.some
              THEN {<<"jwks_uri", provider.jwks_uri.value>>} ELSE {})
        \cup (IF provider.authorization_endpoint.some
              THEN {<<"authorization_endpoint", provider.authorization_endpoint.value>>}
              ELSE {})
        \cup (IF provider.token_endpoint.some
              THEN {<<"token_endpoint", provider.token_endpoint.value>>} ELSE {})
        \cup (IF provider.userinfo_endpoint.some
              THEN {<<"userinfo_endpoint", provider.userinfo_endpoint.value>>} ELSE {})

(* Loading was run for an authkit or oidc provider. *)
ProviderLoadRun == loadResult.called /\ GivenType \in {"authkit", "oidc"}

(* C28: every provider URL that configuration loading accepts, for authkit   *)
(* and oidc providers alike, starts with https://: a value without scheme is *)
(* prefixed with https://, a value with https:// is kept, and a value with   *)
(* http:// makes loading fail.                                               *)
C28_ProviderUrlsAreHttps ==
    ProviderLoadRun
        => /\ (\E given \in GivenUrls : StartsWith(given[2], HttpPrefix))
                  => ~loadResult.ok
           /\ (loadResult.ok /\ loadResult.provider.some)
                  => /\ \A accepted \in AcceptedUrls : StartsWith(accepted[2], HttpsPrefix)
                     /\ \A given \in GivenUrls :
                            <<given[1],
                              IF StartsWith(given[2], HttpsPrefix) THEN given[2]
                              ELSE HttpsPrefix \o given[2]>> \in AcceptedUrls

(* The variables name a provider and give it an http:// issuer. *)
HttpIssuerGiven ==
    /\ GivenType # ""
    /\ spinVars.auth_provider_issuer.set
    /\ StartsWith(spinVars.auth_provider_issuer.value, HttpPrefix)

(* The variables name a provider type that is neither authkit nor oidc. *)
UnknownTypeGiven == GivenType \notin {"", "authkit", "oidc"}

(* The variables name a provider and leave unset a variable it requires. *)
RequiredVariableMissing ==
    \/ GivenType # "" /\ ~spinVars.auth_provider_issuer.set
    \/ /\ GivenType = "oidc"
       /\ \/ ~spinVars.auth_provider_name.set
          \/ ~spinVars.auth_provider_jwks_uri.set
          \/ ~spinVars.auth_provider_authorize_endpoint.set
          \/ ~spinVars.auth_provider_token_endpoint.set

(* C29: when configuration loading fails (an http:// provider URL, an        *)
(* unknown provider type, a missing required provider variable), every       *)
(* request is answered 500 and no routing step runs: no metadata is served,  *)
(* no token is verified and nothing is forwarded.                            *)
C29_LoadFailureIs500 ==
    (apc # "idle"
         /\ (~loadResult.ok \/ HttpIssuerGiven \/ UnknownTypeGiven
                \/ RequiredVariableMissing))
        => /\ apc = "done"
           /\ aresp.status = 500
           /\ aresp # NoProviderResponse
           /\ ~aresp.www.has
           /\ ~fwd.sent
           /\ ~actx.some
           /\ task[AuthTask] = IdleFrame
           /\ cache = EmptyCache

(* C29 witness: with auth_enabled "false" and an authkit issuer given with   *)
(* http://, a POST to /mcp with a JSON body was answered 500 and not         *)
(* forwarded.                                                                *)
C29_Witness ==
    /\ apc = "done"
    /\ spinVars.auth_enabled = VarSet("false")
    /\ spinVars.auth_provider_type = VarSet("authkit")
    /\ spinVars.auth_provider_issuer = VarSet(HttpUrl)
    /\ areq.method = "POST" /\ areq.path = PathMcp
    /\ areq.body = JsonBytes(Json("object", "tools/list", "object", "absent", NoContext))
    /\ aresp.status = 500
    /\ ~fwd.sent

====
